---- MODULE Spec2Model ----
(***************************************************************************)
(* todotxt4js: Scanner -> Parser -> Todo -> TodoList.                      *)
(*                                                                         *)
(* A JavaScript string is modelled as a sequence of one-character strings  *)
(* (<<"d","u","e",":">> is "due:"), so that the character-level rules of   *)
(* the Scanner, of Todo.setPriority and of String.trim are computed and    *)
(* not assumed.  JavaScript's undefined is the value `undefined`.          *)
(***************************************************************************)
EXTENDS Integers, Sequences, FiniteSets, TLC

\* ------------------------------------------------------------------ bounds
\* largest number of whitespace-separated parts of an input line
MaxParts == 3
\* largest number of lines of a document handed to TodoList.parse
MaxLines == 2
\* largest number of operations applied to one Todo object
MaxOps == 3
\* largest number of calls made on one TodoList
MaxCalls == 2
\* the longest line, in characters, handed to the Scanner alone
MaxChars == 5
\* the most entries a TodoList starts with when its operations are studied
MaxTodos == 3

\* ------------------------------------------------------- strings and chars
undefined == <<"undefined">>

LowerLetters == <<"a","b","c","d","e","f","g","h","i","j","k","l","m",
                  "n","o","p","q","r","s","t","u","v","w","x","y","z">>
UpperLetters == <<"A","B","C","D","E","F","G","H","I","J","K","L","M",
                  "N","O","P","Q","R","S","T","U","V","W","X","Y","Z">>
Digits == {"0","1","2","3","4","5","6","7","8","9"}

Range(s) == {s[i] : i \in DOMAIN s}

\* s.substring(from, to) with 0-based indexes, `to` exclusive
substring(s, from, to) == SubSeq(s, from + 1, to)

\* s.charAt(i) with a 0-based index; "" when out of range
charAt(s, i) == IF i + 1 \in DOMAIN s THEN <<s[i + 1]>> ELSE <<>>

startsWith(s, c) == Len(s) >= 1 /\ s[1] = c
endsWith(s, c) == Len(s) >= 1 /\ s[Len(s)] = c

toUpperCaseChar(c) ==
    IF \E i \in DOMAIN LowerLetters : LowerLetters[i] = c
    THEN UpperLetters[CHOOSE i \in DOMAIN LowerLetters : LowerLetters[i] = c]
    ELSE c

toUpperCase(s) == [i \in DOMAIN s |-> toUpperCaseChar(s[i])]

RECURSIVE join(_, _)
\* Array.prototype.join
join(strs, sep) ==
    IF strs = <<>> THEN <<>>
    ELSE IF Len(strs) = 1 THEN strs[1]
    ELSE strs[1] \o sep \o join(Tail(strs), sep)

\* the characters String.prototype.trim strips that occur in the model
TrimChars == {" ", "\t", "\r"}

RECURSIVE trimStart(_)
trimStart(s) ==
    IF s # <<>> /\ s[1] \in TrimChars THEN trimStart(Tail(s)) ELSE s

RECURSIVE trimEnd(_)
trimEnd(s) ==
    IF s # <<>> /\ s[Len(s)] \in TrimChars
    THEN trimEnd(SubSeq(s, 1, Len(s) - 1)) ELSE s

trimStartOnly(s) == trimStart(s)

trim(s) == trimEnd(trimStart(s))

\* ------------------------------------------------------------------ Token
TokenType == {"COMPLETION", "PRIORITY", "DATE", "PROJECT", "CONTEXT",
              "KEY", "WORD"}

Token(type, value) == [type |-> type, value |-> value]

\* ---------------------------------------------------------------- Scanner
isWhitespace(char) == char = " " \/ char = "\t"

isDigit(char) == char \in Digits

isLetter(char) == char \in Range(LowerLetters) \/ char \in Range(UpperLetters)

isUppercaseLetter(char) == char \in Range(UpperLetters)

isValidKeyPrefix(str) ==
    /\ \A i \in DOMAIN str : isLetter(str[i])
    /\ Len(str) > 0

isPriority(str) ==
    /\ Len(str) = 3
    /\ str[1] = "(" /\ str[3] = ")"
    /\ isUppercaseLetter(str[2])

isDate(str) ==
    /\ Len(str) = 10
    /\ str[5] = "-" /\ str[8] = "-"
    /\ \A i \in (1..10) \ {5, 8} : isDigit(str[i])

isProject(str) == Len(str) > 1 /\ str[1] = "+"

isContext(str) == Len(str) > 1 /\ str[1] = "@"

isKey(str) ==
    /\ endsWith(str, ":")
    /\ isValidKeyPrefix(substring(str, 0, Len(str) - 1))

RECURSIVE splitLoop(_, _, _, _, _)
splitLoop(line, i, currentPart, inWhitespace, parts) ==
    IF i > Len(line)
    THEN IF currentPart # <<>> THEN Append(parts, currentPart) ELSE parts
    ELSE IF isWhitespace(line[i])
         THEN splitLoop(line, i + 1,
                        IF ~inWhitespace /\ currentPart # <<>>
                        THEN <<>> ELSE currentPart,
                        TRUE,
                        IF ~inWhitespace /\ currentPart # <<>>
                        THEN Append(parts, currentPart) ELSE parts)
         ELSE splitLoop(line, i + 1, Append(currentPart, line[i]), FALSE,
                        parts)

splitByWhitespace(line) == splitLoop(line, 1, <<>>, TRUE, <<>>)

\* the 0-based index of the first colon of str, -1 when there is none
firstColon(str) ==
    IF \E i \in DOMAIN str : str[i] = ":"
    THEN (CHOOSE i \in DOMAIN str :
             str[i] = ":" /\ \A j \in 1..(i - 1) : str[j] # ":") - 1
    ELSE -1

hasKeyValueOrEmptyValue(str) ==
    LET colonIndex == firstColon(str) IN
    /\ ~(colonIndex <= 0)
    /\ isValidKeyPrefix(substring(str, 0, colonIndex))

\* TRUE when tryExtractKeyValue returns a pair, FALSE when it returns null
hasKeyValue(str) ==
    LET colonIndex == firstColon(str) IN
    /\ ~(colonIndex <= 0 \/ colonIndex = Len(str) - 1)
    /\ isValidKeyPrefix(substring(str, 0, colonIndex))

tryExtractKeyValue(str) ==
    LET colonIndex == firstColon(str) IN
    [key |-> substring(str, 0, colonIndex),
     value |-> substring(str, colonIndex + 1, Len(str))]

\* position is the 0-based index of the part in allParts
classifyTokenLegacy(part, position, allParts) ==
    IF isPriority(part)
    THEN IF position = 0 \/ (position = 1 /\ allParts[1] = <<"x">>)
         THEN Token("PRIORITY", part)
         ELSE Token("WORD", part)
    ELSE IF part = <<"x">> THEN Token("COMPLETION", part)
    ELSE IF isDate(part) THEN Token("DATE", part)
    ELSE IF isProject(part) THEN Token("PROJECT", part)
    ELSE IF isContext(part) THEN Token("CONTEXT", part)
    ELSE IF isKey(part) THEN Token("KEY", part)
    ELSE Token("WORD", part)

classifyTokenAnywhere(part, position, allParts) ==
    IF isPriority(part) THEN Token("PRIORITY", part)
    ELSE IF part = <<"x">> /\ position = 0 THEN Token("COMPLETION", part)
    ELSE IF isDate(part) THEN Token("DATE", part)
    ELSE IF isProject(part) THEN Token("PROJECT", part)
    ELSE IF isContext(part) THEN Token("CONTEXT", part)
    ELSE IF isKey(part) THEN Token("KEY", part)
    ELSE Token("WORD", part)

classifyToken(part, position, allParts) ==
    IF isPriority(part)
    THEN IF position = 0 \/ (position = 1 /\ allParts[1] = <<"x">>)
         THEN Token("PRIORITY", part)
         ELSE Token("WORD", part)
    ELSE IF part = <<"x">> /\ position = 0 THEN Token("COMPLETION", part)
    ELSE IF isDate(part) THEN Token("DATE", part)
    ELSE IF isProject(part) THEN Token("PROJECT", part)
    ELSE IF isContext(part) THEN Token("CONTEXT", part)
    ELSE IF isKey(part) THEN Token("KEY", part)
    ELSE Token("WORD", part)

RECURSIVE scanLoop(_, _, _)
scanLoop(parts, i, tokens) ==
    IF i >= Len(parts) THEN tokens
    ELSE LET part == parts[i + 1] IN
         IF hasKeyValue(part)
         THEN LET keyValue == tryExtractKeyValue(part) IN
              scanLoop(parts, i + 1,
                  tokens \o <<Token("KEY", keyValue.key \o <<":">>),
                              classifyToken(keyValue.value, i, parts)>>)
         ELSE scanLoop(parts, i + 1,
                  Append(tokens, classifyToken(part, i, parts)))

scan(line) == scanLoop(splitByWhitespace(line), 0, <<>>)

\* ------------------------------------------------------------ JS values
\* A stored key-value is a string, a number (written in decimal, or NaN),
\* a function inherited from Object.prototype, or an array of such values.
StrVal(s) == [t |-> "string", s |-> s, a |-> <<>>]
NumVal(s) == [t |-> "number", s |-> s, a |-> <<>>]
FnVal(name) == [t |-> "function", s |-> name, a |-> <<>>]
ArrVal(elems) == [t |-> "array", s |-> <<>>, a |-> elems]
UndefVal == [t |-> "undefined", s |-> <<>>, a |-> <<>>]

NaN == <<"N","a","N">>

\* JavaScript truthiness of a stored value
truthy(v) ==
    CASE v.t = "string" -> v.s # <<>>
      [] v.t = "number" -> v.s # <<"0">> /\ v.s # NaN
      [] v.t = "undefined" -> FALSE
      [] OTHER -> TRUE

isArray(v) == v.t = "array"

RECURSIVE digitPrefix(_)
digitPrefix(s) ==
    IF s # <<>> /\ isDigit(s[1]) THEN <<s[1]>> \o digitPrefix(Tail(s))
    ELSE <<>>

RECURSIVE dropLeadingZeros(_)
dropLeadingZeros(s) ==
    IF Len(s) > 1 /\ s[1] = "0" THEN dropLeadingZeros(Tail(s)) ELSE s

\* parseInt on a text without sign or leading blanks
parseInt(s) ==
    IF digitPrefix(s) = <<>> THEN NumVal(NaN)
    ELSE NumVal(dropLeadingZeros(digitPrefix(s)))

\* the all-letter property names every plain object inherits
ObjectPrototypeKeys ==
    { <<"c","o","n","s","t","r","u","c","t","o","r">>,
      <<"t","o","S","t","r","i","n","g">>,
      <<"v","a","l","u","e","O","f">>,
      <<"h","a","s","O","w","n","P","r","o","p","e","r","t","y">>,
      <<"i","s","P","r","o","t","o","t","y","p","e","O","f">>,
      <<"t","o","L","o","c","a","l","e","S","t","r","i","n","g">>,
      <<"p","r","o","p","e","r","t","y","I","s","E","n","u","m","e","r",
        "a","b","l","e">> }

\* keyValues is the list of own entries in insertion order
hasOwnProperty(keyValues, key) ==
    \E i \in DOMAIN keyValues : keyValues[i].key = key

ownValue(keyValues, key) ==
    keyValues[CHOOSE i \in DOMAIN keyValues : keyValues[i].key = key].value

\* `key in obj` for a plain object: own or inherited
keyIn(keyValues, key) ==
    hasOwnProperty(keyValues, key) \/ key \in ObjectPrototypeKeys

\* obj[key] for a plain object: own, else inherited, else undefined
getProperty(keyValues, key) ==
    IF hasOwnProperty(keyValues, key) THEN ownValue(keyValues, key)
    ELSE IF key \in ObjectPrototypeKeys THEN FnVal(key)
    ELSE UndefVal

\* obj[key] = value
putProperty(keyValues, key, value) ==
    IF hasOwnProperty(keyValues, key)
    THEN [i \in DOMAIN keyValues |->
            IF keyValues[i].key = key
            THEN [key |-> key, value |-> value] ELSE keyValues[i]]
    ELSE Append(keyValues, [key |-> key, value |-> value])

\* ------------------------------------------------------------------- Todo
null == <<"null">>

DUE == <<"d","u","e">>

DefaultOptions ==
    [completed |-> FALSE, priority |-> undefined,
     completionDate |-> undefined, creationDate |-> undefined,
     description |-> undefined, projects |-> <<>>, contexts |-> <<>>,
     keyValues |-> <<>>, due |-> undefined]

\* truthiness of an optional string
given(s) == s # undefined /\ s # <<>>

\* set completed(value)
setCompleted(todo, value) ==
    IF ~value
    THEN [todo EXCEPT !.completed = value, !.completionDate = undefined]
    ELSE [todo EXCEPT !.completed = value]

setCompletionDateAsCreation(todo, value) ==
    [todo EXCEPT !.creationDate = value]

\* set completionDate(value)
setCompletionDate(todo, value) == [todo EXCEPT !.completionDate = value]

setCreationDateAsCompletion(todo, value) ==
    [todo EXCEPT !.completionDate = value]

\* set creationDate(value)
setCreationDate(todo, value) == [todo EXCEPT !.creationDate = value]

setDescription(todo, newDescription) ==
    [todo EXCEPT !.description = newDescription]

setKeyValue(todo, key, value) ==
    [todo EXCEPT !.keyValues = putProperty(@, key, value)]

setDueDate(todo, dueDate) == setKeyValue(todo, DUE, StrVal(dueDate))

RECURSIVE replaceFirstNonLetter(_)
\* priority.replace(/[^A-Za-z]/, ""): the pattern has no g flag
replaceFirstNonLetter(s) ==
    IF s = <<>> THEN <<>>
    ELSE IF ~isLetter(s[1]) THEN Tail(s)
    ELSE <<s[1]>> \o replaceFirstNonLetter(Tail(s))

\* /[A-Z]/.test(s)
hasUppercaseLetter(s) == \E i \in DOMAIN s : isUppercaseLetter(s[i])

wrap(priorityChar) == <<"(">> \o priorityChar \o <<")">>

\* setPriority taking the priority off when it is given a second time
setPriorityOrClear(todo, priority) ==
    IF priority = null THEN [todo EXCEPT !.priority = undefined]
    ELSE IF Len(priority) # 1 \/ ~isLetter(priority[1]) THEN todo
    ELSE IF todo.priority = wrap(toUpperCase(priority))
    THEN [todo EXCEPT !.priority = undefined]
    ELSE [todo EXCEPT !.priority = wrap(toUpperCase(priority))]

setPriority(todo, priority) ==
    IF priority = null THEN [todo EXCEPT !.priority = undefined]
    ELSE IF startsWith(priority, "(") /\ endsWith(priority, ")")
    THEN LET priorityChar == toUpperCase(charAt(priority, 1)) IN
         IF hasUppercaseLetter(priorityChar)
         THEN [todo EXCEPT !.priority = wrap(priorityChar)]
         ELSE todo
    ELSE LET priorityChar == toUpperCase(replaceFirstNonLetter(priority)) IN
         IF priorityChar # <<>>
         THEN [todo EXCEPT !.priority = wrap(priorityChar)]
         ELSE todo

\* the tag with its marker ("+" or "@") prefixed when it has none
formatted(tag, marker) == IF startsWith(tag, marker) THEN tag ELSE <<marker>> \o tag

addContext(todo, context) ==
    LET formattedContext == formatted(context, "@") IN
    IF formattedContext \notin Range(todo.contexts)
    THEN [todo EXCEPT !.contexts = Append(@, formattedContext)]
    ELSE todo

\* addProject without the includes test
pushProject(todo, project) ==
    [todo EXCEPT !.projects = Append(@, formatted(project, "+"))]

addProject(todo, project) ==
    LET formattedProject == formatted(project, "+") IN
    IF formattedProject \notin Range(todo.projects)
    THEN [todo EXCEPT !.projects = Append(@, formattedProject)]
    ELSE todo

removeContext(todo, context) ==
    LET formattedContext == formatted(context, "@") IN
    [todo EXCEPT !.contexts = SelectSeq(@, LAMBDA c : c # formattedContext)]

removeProject(todo, project) ==
    LET formattedProject == formatted(project, "+") IN
    [todo EXCEPT !.projects = SelectSeq(@, LAMBDA p : p # formattedProject)]

RECURSIVE addProjects(_, _)
addProjects(todo, projects) ==
    IF projects = <<>> THEN todo
    ELSE addProjects(addProject(todo, projects[1]), Tail(projects))

RECURSIVE addContexts(_, _)
addContexts(todo, contexts) ==
    IF contexts = <<>> THEN todo
    ELSE addContexts(addContext(todo, contexts[1]), Tail(contexts))

\* new Todo(options); id is the fresh identifier drawn for the object
NewTodo(id, options) ==
    LET t0 == [id |-> id,
               completed |-> options.completed,
               priority |-> undefined,
               description |-> IF given(options.description)
                               THEN options.description ELSE <<>>,
               completionDate |-> options.completionDate,
               creationDate |-> options.creationDate,
               projects |-> <<>>,
               contexts |-> <<>>,
               keyValues |-> options.keyValues]
        t1 == addProjects(t0, options.projects)
        t2 == addContexts(t1, options.contexts)
        t3 == IF given(options.priority)
              THEN setPriority(t2, options.priority) ELSE t2
    IN  IF given(options.due) THEN setDueDate(t3, options.due) ELSE t3

markCompleted(todo, completionDate, today) ==
    [todo EXCEPT !.completed = TRUE,
                 !.completionDate = IF given(completionDate)
                                    THEN completionDate ELSE today]

markIncomplete(todo) ==
    [todo EXCEPT !.completed = FALSE, !.completionDate = undefined]

toggleCompletion(todo, today) ==
    IF todo.completed THEN markIncomplete(todo)
    ELSE markCompleted(todo, undefined, today)

\* String.fromCharCode(letter.charCodeAt(0) + delta), for an upper-case letter
shiftLetter(letter, delta) ==
    LET i == CHOOSE k \in DOMAIN UpperLetters : UpperLetters[k] = letter IN
    IF i + delta \in DOMAIN UpperLetters THEN UpperLetters[i + delta]
    ELSE IF i + delta = 0 THEN "@" ELSE "["

increasePriority(todo) ==
    IF todo.priority = undefined THEN setPriority(todo, <<"Z">>)
    ELSE LET currentPriority == charAt(todo.priority, 1) IN
         IF currentPriority = <<"A">> THEN todo
         ELSE setPriority(todo, <<shiftLetter(currentPriority[1], -1)>>)

\* decreasePriority leaving (Z) where it is
decreasePriorityStoppingAtZ(todo) ==
    IF todo.priority = undefined \/ charAt(todo.priority, 1) = <<"Z">> THEN todo
    ELSE setPriority(todo, <<shiftLetter(charAt(todo.priority, 1)[1], 1)>>)

decreasePriority(todo) ==
    IF todo.priority = undefined THEN todo
    ELSE LET currentPriority == charAt(todo.priority, 1) IN
         IF currentPriority = <<"Z">> THEN setPriority(todo, null)
         ELSE setPriority(todo, <<shiftLetter(currentPriority[1], 1)>>)

clone(todo, id) ==
    NewTodo(id, [completed |-> todo.completed,
                 priority |-> todo.priority,
                 completionDate |-> todo.completionDate,
                 creationDate |-> todo.creationDate,
                 description |-> todo.description,
                 projects |-> todo.projects,
                 contexts |-> todo.contexts,
                 keyValues |-> todo.keyValues,
                 due |-> undefined])

\* ----------------------------------------------------------------- Parser
\* A key handler names its validator and its transform:
\*   validate  "none" | "isDate"    (value) => /^\d{4}-\d{2}-\d{2}$/.test(value)
\*   transform "none" | "parseInt"  (value) => parseInt(value)
KeyHandler(key, validate, transform) ==
    [key |-> key, validate |-> validate, transform |-> transform]

validates(handler, value) ==
    handler.validate = "none" \/ (handler.validate = "isDate" /\ isDate(value))

transformed(handler, value) ==
    IF handler.transform = "parseInt" THEN parseInt(value) ELSE StrVal(value)

\* a parse error: its kind and the key its message names
TodoParsingError(kind, key) ==
    [ok |-> FALSE, error |-> kind, key |-> key, todo |-> undefined]

Parsed(todo) == [ok |-> TRUE, error |-> "", key |-> <<>>, todo |-> todo]

\* pos is 0-based
isAtEnd(tokens, pos, offset) == pos + offset >= Len(tokens)

match(tokens, pos, type) == pos < Len(tokens) /\ tokens[pos + 1].type = type

\* the value stored for a key that is already in todo.keyValues
merged(stored, value) ==
    IF ~truthy(stored) THEN value
    ELSE IF isArray(stored)
         THEN ArrVal(stored.a \o <<value>>)
         ELSE ArrVal(<<stored, value>>)

\* what a parseTodo call returned or threw, and where it left this.pos
Stopped(out, pos) == [out |-> out, pos |-> pos]

RECURSIVE descriptionLoop(_, _, _, _, _)
descriptionLoop(tokens, options, pos, todo, descriptionParts) ==
    IF isAtEnd(tokens, pos, 0)
    THEN Stopped(Parsed(setDescription(todo,
                                       trim(join(descriptionParts, <<" ">>)))),
                 pos)
    ELSE IF match(tokens, pos, "KEY") /\ ~isAtEnd(tokens, pos, 1)
    THEN LET keyToken == tokens[pos + 1]
             keyName == substring(keyToken.value, 0, Len(keyToken.value) - 1)
             valueToken == tokens[pos + 2]
             handlers == SelectSeq(options.customKeyHandlers,
                                   LAMBDA h : h.key = keyName)
             hasHandler == handlers # <<>>
             value == IF hasHandler
                      THEN transformed(handlers[1], valueToken.value)
                      ELSE StrVal(valueToken.value)
         IN  IF hasHandler /\ ~validates(handlers[1], valueToken.value)
             THEN Stopped(TodoParsingError("Validation failed", keyName), pos + 2)
             ELSE IF keyIn(todo.keyValues, keyName)
             THEN CASE options.duplicateKeyBehavior = "error" ->
                         Stopped(TodoParsingError("Duplicate key", keyName),
                                 pos + 2)
                    [] options.duplicateKeyBehavior = "merge" ->
                         descriptionLoop(tokens, options, pos + 2,
                             setKeyValue(todo, keyName,
                                 merged(getProperty(todo.keyValues, keyName),
                                        value)),
                             descriptionParts)
                    [] OTHER ->
                         descriptionLoop(tokens, options, pos + 2,
                             setKeyValue(todo, keyName, value),
                             descriptionParts)
             ELSE descriptionLoop(tokens, options, pos + 2,
                      setKeyValue(todo, keyName, value), descriptionParts)
    ELSE LET token == tokens[pos + 1]
             captured == IF token.type = "PROJECT"
                         THEN addProject(todo, token.value)
                         ELSE IF token.type = "CONTEXT"
                         THEN addContext(todo, token.value)
                         ELSE todo
         IN  descriptionLoop(tokens, options, pos + 1, captured,
                             Append(descriptionParts, token.value))

\* parseTodo from the position start on; id is the identifier of the new Todo
parseRun(tokens, options, id, start) ==
    LET todo0 == NewTodo(id, DefaultOptions)
        isCompletion == match(tokens, start, "COMPLETION")
        todo1 == IF isCompletion THEN setCompleted(todo0, TRUE) ELSE todo0
        pos1 == IF isCompletion THEN start + 1 ELSE start
        isPrio == match(tokens, pos1, "PRIORITY")
        todo2 == IF isPrio THEN setPriority(todo1, tokens[pos1 + 1].value)
                 ELSE todo1
        pos2 == IF isPrio THEN pos1 + 1 ELSE pos1
        isDate1 == match(tokens, pos2, "DATE")
        todo3 == IF isDate1
                 THEN IF todo2.completed
                      THEN setCompletionDate(todo2, tokens[pos2 + 1].value)
                      ELSE setCreationDate(todo2, tokens[pos2 + 1].value)
                 ELSE todo2
        pos3 == IF isDate1 THEN pos2 + 1 ELSE pos2
        isDate2 == todo3.completed /\ match(tokens, pos3, "DATE")
        todo4 == IF isDate2
                 THEN setCreationDate(todo3, tokens[pos3 + 1].value)
                 ELSE todo3
        pos4 == IF isDate2 THEN pos3 + 1 ELSE pos3
    IN  descriptionLoop(tokens, options, pos4, todo4, <<>>)

\* parseTodo starting where the call before stopped
keepPosition(pos) == pos

\* this.pos = 0
resetPosition(pos) == 0

\* parser.parseTodo() on a Parser whose position is pos
parseTodoAgain(tokens, options, id, pos) ==
    parseRun(tokens, options, id, resetPosition(pos))

\* new Parser(tokens, options).parseTodo()
parseTodo(tokens, options, id) == parseRun(tokens, options, id, 0).out

\* -------------------------------------------------------- Todo.toString
\* is needle a substring of haystack (String.prototype.includes)
includes(haystack, needle) ==
    \E i \in 0..(Len(haystack) - Len(needle)) :
        SubSeq(haystack, i + 1, i + Len(needle)) = needle

RECURSIVE valueToString(_)
\* the text a template literal `${value}` produces
valueToString(v) ==
    CASE v.t = "array" ->
            join([i \in DOMAIN v.a |-> valueToString(v.a[i])], <<",">>)
      [] v.t = "function" ->
            <<"f","u","n","c","t","i","o","n"," ">> \o v.s
            \o <<"(",")"," ","{"," ","[","n","a","t","i","v","e"," ",
                 "c","o","d","e","]"," ","}">>
      [] v.t = "undefined" -> undefined
      [] OTHER -> v.s

toStringPartsNoCompletionDate(todo) ==
    (IF todo.completed THEN <<<<"x">>>> ELSE <<>>)
    \o (IF given(todo.creationDate) THEN <<todo.creationDate>> ELSE <<>>)
    \o (IF given(todo.priority) /\ ~todo.completed
        THEN <<todo.priority>> ELSE <<>>)
    \o <<todo.description>>
    \o SelectSeq(todo.projects,
                 LAMBDA project : ~includes(todo.description, project))
    \o SelectSeq(todo.contexts,
                 LAMBDA context : ~includes(todo.description, context))
    \o [i \in DOMAIN todo.keyValues |->
           todo.keyValues[i].key \o <<":">>
           \o valueToString(todo.keyValues[i].value)]

\* toString pushing every project and context, in the description or not
toStringPartsEveryTag(todo) ==
    (IF todo.completed
     THEN <<<<"x">>>> \o (IF given(todo.completionDate)
                          THEN <<todo.completionDate>> ELSE <<>>)
     ELSE <<>>)
    \o (IF given(todo.creationDate) THEN <<todo.creationDate>> ELSE <<>>)
    \o (IF given(todo.priority) /\ ~todo.completed
        THEN <<todo.priority>> ELSE <<>>)
    \o <<todo.description>>
    \o todo.projects
    \o todo.contexts
    \o [i \in DOMAIN todo.keyValues |->
           todo.keyValues[i].key \o <<":">>
           \o valueToString(todo.keyValues[i].value)]

toStringParts(todo) ==
    (IF todo.completed
     THEN <<<<"x">>>> \o (IF given(todo.completionDate)
                          THEN <<todo.completionDate>> ELSE <<>>)
     ELSE <<>>)
    \o (IF given(todo.creationDate) THEN <<todo.creationDate>> ELSE <<>>)
    \o (IF given(todo.priority) /\ ~todo.completed
        THEN <<todo.priority>> ELSE <<>>)
    \o <<todo.description>>
    \o SelectSeq(todo.projects,
                 LAMBDA project : ~includes(todo.description, project))
    \o SelectSeq(todo.contexts,
                 LAMBDA context : ~includes(todo.description, context))
    \o [i \in DOMAIN todo.keyValues |->
           todo.keyValues[i].key \o <<":">>
           \o valueToString(todo.keyValues[i].value)]

toString(todo) == join(toStringParts(todo), <<" ">>)

\* ------------------------------------------------------------ the inputs
D1 == <<"2","0","2","3","-","0","4","-","0","1">>
D2 == <<"2","0","2","3","-","0","3","-","1","5">>
D3 == <<"2","0","2","3","-","0","3","-","2","0">>
K == <<"k">>
VALUEOF == <<"v","a","l","u","e","O","f">>

\* the parts input lines are made of
PartVocab ==
    { <<"x">>, <<"(","A",")">>, D1, D2, <<"+","p">>, <<"@","c">>, <<"w">>,
      <<"\r">>,
      <<"k",":">>, <<"k",":","a">>, <<"k",":","0">>, K \o <<":">> \o D1,
      <<"k",":","x">>, <<"k",":","(","A",")">>,
      VALUEOF \o <<":","a">> }

RECURSIVE SeqsUpTo(_, _)
\* the sequences of at most n elements of S
SeqsUpTo(S, n) ==
    IF n = 0 THEN {<<>>}
    ELSE LET shorter == SeqsUpTo(S, n - 1) IN
         shorter \cup {Append(q, e) : q \in shorter, e \in S}

Lines == {join(ps, <<" ">>) : ps \in SeqsUpTo(PartVocab, MaxParts)}

HandlerSets ==
    { <<>>,
      <<KeyHandler(K, "isDate", "none")>>,
      <<KeyHandler(K, "none", "parseInt")>> }

ParserOptions ==
    [duplicateKeyBehavior : {"error", "overwrite", "merge"},
     customKeyHandlers : HandlerSets]

\* ------------------------------------------------------- TodoList.parse
RECURSIVE splitLinesLoop(_, _, _, _)
\* text.split(/\r?\n/)
splitLinesLoop(text, i, current, lines) ==
    IF i > Len(text) THEN Append(lines, current)
    ELSE IF text[i] = "\n"
         THEN splitLinesLoop(text, i + 1, <<>>,
                  Append(lines, IF endsWith(current, "\r")
                                THEN SubSeq(current, 1, Len(current) - 1)
                                ELSE current))
         ELSE splitLinesLoop(text, i + 1, Append(current, text[i]), lines)

splitLines(text) == splitLinesLoop(text, 1, <<>>, <<>>)

\* .filter((line) => line.trim() !== "")
nonEmptyLines(text) ==
    SelectSeq(splitLines(text), LAMBDA l : trim(l) # <<>>)

\* the outcome of a TodoList call: the list, the next fresh id, what it threw
Outcome(list, id, res) == [todos |-> list, nextId |-> id, thrown |-> res]

RECURSIVE parseLines(_, _, _, _)
\* one turn of the for loop of TodoList.parse, res being what parseTodo gave
\* for the line: the todo is pushed, or the throw leaves the loop and the method
pushOrThrow(res, rest, parserOptions, list, id) ==
    IF res.ok
    THEN parseLines(rest, parserOptions, Append(list, res.todo), id + 1)
    ELSE Outcome(list, id + 1, res)

\* the for loop of TodoList.parse
parseLines(lines, parserOptions, list, id) ==
    IF lines = <<>> THEN Outcome(list, id, Parsed(undefined))
    ELSE pushOrThrow(parseTodo(scan(lines[1]), parserOptions, id),
                     Tail(lines), parserOptions, list, id)

\* TodoList.parse(text, parserOptions): the list is emptied first
parseText(text, parserOptions, id) ==
    parseLines(nonEmptyLines(text), parserOptions, <<>>, id)

\* the list is emptied before the line is parsed, as parse does
addTodoClearing(list, todoOrLine, parserOptions, id) ==
    parseLines(<<todoOrLine>>, parserOptions, <<>>, id)

\* TodoList.addTodo(todoOrLine, parserOptions) with a string
addTodo(list, todoOrLine, parserOptions, id) ==
    parseLines(<<todoOrLine>>, parserOptions, list, id)

\* TodoList.addTodo(todoOrLine) with a Todo object
pushTodo(list, todoOrLine) == Append(list, todoOrLine)

\* TodoList.parse(textOrTodos) with an array of Todo objects
parseTodos(textOrTodos) == textOrTodos

\* ---------------------------------------------- TodoList: find and change
\* this.todos.findIndex((t) => t.id === todoId): 0-based, -1 when absent
findIndex(list, todoId) ==
    IF \E i \in DOMAIN list : list[i].id = todoId
    THEN (CHOOSE i \in DOMAIN list :
             list[i].id = todoId /\ \A j \in 1..(i - 1) : list[j].id # todoId) - 1
    ELSE -1

\* TodoList.getTodo(todoId): this.todos.find((todo) => todo.id === todoId)
getTodo(list, todoId) ==
    IF findIndex(list, todoId) = -1 THEN UndefVal
    ELSE list[findIndex(list, todoId) + 1]

deleteFirstTodo(list, todoId) ==
    IF findIndex(list, todoId) = -1 THEN list
    ELSE SubSeq(list, 1, findIndex(list, todoId))
         \o SubSeq(list, findIndex(list, todoId) + 2, Len(list))

\* TodoList.deleteTodo(todoId), and deleteTodo(todo) with todoId = todo.id
deleteTodo(list, todoId) == SelectSeq(list, LAMBDA t : t.id # todoId)

\* new Error(`Todo with id ${todoId} not found.`)
NotFoundError(todoId) ==
    [ok |-> FALSE, error |-> "not found", key |-> <<>>, todo |-> undefined]

\* the updater functions callers hand to editTodo
Updaters == {"markCompleted", "setDescription"}

\* updater(todo), the clock reading today
applyUpdater(updater, t, today) ==
    IF updater = "markCompleted" THEN markCompleted(t, undefined, today)
    ELSE setDescription(t, <<"e","d","i","t","e","d">>)

\* what an editTodo call leaves: the list, what it threw, and how many times
\* it invoked the updater
Edited(list, res, n) == [todos |-> list, thrown |-> res, invoked |-> n]

editTodoSilentlyWhenAbsent(list, todoId, updater, today) ==
    IF findIndex(list, todoId) = -1
    THEN Edited(list, Parsed(undefined), 0)
    ELSE Edited([i \in DOMAIN list |->
                    IF list[i].id = todoId
                    THEN applyUpdater(updater, list[i], today) ELSE list[i]],
                Parsed(undefined), 1)

\* TodoList.editTodo(todoId, updater); the entries that carry the id are one
\* object, which the updater changes in place
editTodo(list, todoId, updater, today) ==
    IF findIndex(list, todoId) = -1
    THEN Edited(list, NotFoundError(todoId), 0)
    ELSE Edited([i \in DOMAIN list |->
                    IF list[i].id = todoId
                    THEN applyUpdater(updater, list[i], today) ELSE list[i]],
                Parsed(undefined), 1)

\* TodoList.editTodo(updatedTodo)
replaceTodo(list, updatedTodo) ==
    IF findIndex(list, updatedTodo.id) = -1
    THEN Edited(list, NotFoundError(updatedTodo.id), 0)
    ELSE Edited([list EXCEPT ![findIndex(list, updatedTodo.id) + 1] = updatedTodo],
                Parsed(undefined), 0)

\* ------------------------------------------------- TodoList: sortBy, filter
\* the characters of priorities, dates and tags in the order of their codes
CodeOrder ==
    <<" ", "(", ")", "+", ",", "-">> \o <<"0","1","2","3","4","5","6","7","8","9">>
    \o <<":", "@">> \o UpperLetters \o LowerLetters

codeOf(char) == CHOOSE i \in DOMAIN CodeOrder : CodeOrder[i] = char

RECURSIVE lessThan(_, _)
\* a < b on two strings
lessThan(a, b) ==
    IF b = <<>> THEN FALSE
    ELSE IF a = <<>> THEN TRUE
    ELSE IF a[1] = b[1] THEN lessThan(Tail(a), Tail(b))
    ELSE codeOf(a[1]) < codeOf(b[1])

\* a.localeCompare(b), on the texts of priorities and dates
localeCompare(a, b) == IF lessThan(a, b) THEN -1 ELSE IF lessThan(b, a) THEN 1 ELSE 0

\* the left operand of localeCompare for the criteria: (field || "")
sortKey(t, criteria) ==
    CASE criteria = "priority" ->
            StrVal(IF given(t.priority) THEN t.priority ELSE <<>>)
      [] criteria = "due" ->
            IF truthy(getProperty(t.keyValues, DUE))
            THEN getProperty(t.keyValues, DUE) ELSE StrVal(<<>>)
      [] criteria = "creation" ->
            StrVal(IF given(t.creationDate) THEN t.creationDate ELSE <<>>)
      [] criteria = "completion" ->
            StrVal(IF given(t.completionDate) THEN t.completionDate ELSE <<>>)

\* the comparator of sortBy
compareTodos(a, b, criteria) ==
    localeCompare(sortKey(a, criteria).s, valueToString(sortKey(b, criteria)))

RECURSIVE insertLast(_, _, _)
\* sorted with t put after the entries that do not compare above it
insertLast(sorted, t, criteria) ==
    IF sorted = <<>> THEN <<t>>
    ELSE IF compareTodos(t, sorted[Len(sorted)], criteria) < 0
         THEN Append(insertLast(SubSeq(sorted, 1, Len(sorted) - 1), t, criteria),
                     sorted[Len(sorted)])
         ELSE Append(sorted, t)

RECURSIVE insertFirst(_, _, _)
insertFirst(sorted, t, criteria) ==
    IF sorted = <<>> THEN <<t>>
    ELSE IF compareTodos(t, sorted[Len(sorted)], criteria) <= 0
         THEN Append(insertFirst(SubSeq(sorted, 1, Len(sorted) - 1), t, criteria),
                     sorted[Len(sorted)])
         ELSE Append(sorted, t)

RECURSIVE sortLoopUnstable(_, _, _)
sortLoopUnstable(list, sorted, criteria) ==
    IF list = <<>> THEN sorted
    ELSE sortLoopUnstable(Tail(list), insertFirst(sorted, list[1], criteria), criteria)

RECURSIVE sortLoop(_, _, _)
\* Array.prototype.sort with the comparator: a stable sort
sortLoop(list, sorted, criteria) ==
    IF list = <<>> THEN sorted
    ELSE sortLoop(Tail(list), insertLast(sorted, list[1], criteria), criteria)

\* a key that is no string has no localeCompare: the comparator throws
TypeError ==
    [ok |-> FALSE, error |-> "TypeError", key |-> <<>>, todo |-> undefined]

\* TodoList.sortBy(criteria): the list it leaves and what it threw
sortBy(list, criteria) ==
    IF Len(list) >= 2 /\ \E i \in DOMAIN list : sortKey(list[i], criteria).t # "string"
    THEN Edited(list, TypeError, 0)
    ELSE Edited(sortLoop(list, <<>>, criteria), Parsed(undefined), 0)

valueLessOrEqual(v, bound) ==
    IF v.t = "number" THEN FALSE ELSE ~lessThan(bound, valueToString(v))

\* dueDate < bound, dueDate being a stored value and bound a string
valueLess(v, bound) ==
    IF v.t = "number" THEN FALSE ELSE lessThan(valueToString(v), bound)

\* dueDate > bound
valueGreater(v, bound) ==
    IF v.t = "number" THEN FALSE ELSE lessThan(bound, valueToString(v))

\* criteria without a field given; completed, projects and contexts hold
\* <<>> when not given and <<value>> when given
NoCriteria ==
    [completed |-> <<>>, priority |-> undefined, projects |-> <<>>,
     contexts |-> <<>>, dueAfter |-> undefined, dueBefore |-> undefined,
     project |-> undefined, context |-> undefined]

everyIncluded(tags, todoTags) == \A i \in DOMAIN tags : tags[i] \in Range(todoTags)

\* criteria.tags.some((tag) => todoTags.includes(tag))
someIncluded(tags, todoTags) == \E i \in DOMAIN tags : tags[i] \in Range(todoTags)

\* the callback of filter: TRUE when the todo is kept
keeps(t, criteria) ==
    /\ ~(criteria.completed # <<>> /\ t.completed # criteria.completed[1])
    /\ ~(given(criteria.priority) /\ t.priority # criteria.priority)
    /\ ~(criteria.projects # <<>> /\ Len(criteria.projects[1]) > 0
          /\ ~someIncluded(criteria.projects[1], t.projects))
    /\ ~(criteria.contexts # <<>> /\ Len(criteria.contexts[1]) > 0
          /\ ~someIncluded(criteria.contexts[1], t.contexts))
    /\ LET dueDate == getProperty(t.keyValues, DUE) IN
       IF truthy(dueDate)
       THEN /\ ~(given(criteria.dueAfter) /\ valueLess(dueDate, criteria.dueAfter))
            /\ ~(given(criteria.dueBefore)
                  /\ valueGreater(dueDate, criteria.dueBefore))
       ELSE ~(given(criteria.dueAfter) \/ given(criteria.dueBefore))

\* TodoList.filter(criteria)
filter(list, criteria) == SelectSeq(list, LAMBDA t : keeps(t, criteria))

\* ------------------------------------------------------------ recurrence
REC == <<"r","e","c">>

\* the number a text of digits writes
DigitOrder == <<"0","1","2","3","4","5","6","7","8","9">>

digitValue(c) == (CHOOSE i \in DOMAIN DigitOrder : DigitOrder[i] = c) - 1

RECURSIVE numberOf(_)
numberOf(s) ==
    IF s = <<>> THEN 0
    ELSE 10 * numberOf(SubSeq(s, 1, Len(s) - 1)) + digitValue(s[Len(s)])

\* n written in decimal
RECURSIVE decimal(_)
decimal(n) ==
    IF n < 10 THEN <<DigitOrder[n + 1]>>
    ELSE decimal(n \div 10) \o <<DigitOrder[(n % 10) + 1]>>

RECURSIVE padStart(_, _)
padStart(s, width) == IF Len(s) >= width THEN s ELSE padStart(<<"0">> \o s, width)

toLowerCaseChar(c) ==
    IF \E i \in DOMAIN UpperLetters : UpperLetters[i] = c
    THEN LowerLetters[CHOOSE i \in DOMAIN UpperLetters : UpperLetters[i] = c]
    ELSE c

allDigits(s) == \A i \in DOMAIN s : isDigit(s[i])

\* Todo.getDueDate(): this._keyValues["due"]
getDueDate(todo) == getProperty(todo.keyValues, DUE)

NoRecurrence == [interval |-> NumVal(NaN), type |-> "none"]

\* value.match(/^(\d+)([dwmy])$/i)
matchesRecurrence(value) ==
    /\ Len(value) >= 2
    /\ allDigits(SubSeq(value, 1, Len(value) - 1))
    /\ toLowerCaseChar(value[Len(value)]) \in {"d", "w", "m", "y"}

\* Todo.getRecurrence(); NoRecurrence stands for undefined
getRecurrence(todo) ==
    LET value == getProperty(todo.keyValues, REC) IN
    IF ~truthy(value) \/ value.t # "string" THEN NoRecurrence
    ELSE IF ~matchesRecurrence(value.s) THEN NoRecurrence
    ELSE [interval |-> parseInt(SubSeq(value.s, 1, Len(value.s) - 1)),
          type |-> CASE toLowerCaseChar(value.s[Len(value.s)]) = "d" -> "daily"
                     [] toLowerCaseChar(value.s[Len(value.s)]) = "w" -> "weekly"
                     [] toLowerCaseChar(value.s[Len(value.s)]) = "m" -> "monthly"
                     [] toLowerCaseChar(value.s[Len(value.s)]) = "y" -> "yearly"]

\* `${n}` for a non-negative integer n given by its digits: the digits up to
\* 21 of them, the exponent form from 1e21 on
numberToString(digits) ==
    IF Len(digits) <= 21 THEN digits
    ELSE LET last == CHOOSE k \in DOMAIN digits :
                         /\ \A j \in (k + 1)..Len(digits) : digits[j] = "0"
                         /\ digits[k] # "0"
             exponent == <<"e", "+">> \o decimal(Len(digits) - 1)
         IN  IF last = 1 THEN <<digits[1]>> \o exponent
             ELSE <<digits[1], ".">> \o SubSeq(digits, 2, last) \o exponent

\* Todo.setRecurrence(pattern)
setRecurrence(todo, pattern) ==
    setKeyValue(todo, REC,
                StrVal(numberToString(pattern.interval.s) \o <<pattern.type[1]>>))

\* ------------------------------------------------------------------ Date
\* A Date is a calendar day and an hour of that day, in UTC or in local time.
leapYear(y) == (y % 4 = 0 /\ y % 100 # 0) \/ y % 400 = 0

daysInMonth(y, m) ==
    IF m = 2 THEN (IF leapYear(y) THEN 29 ELSE 28)
    ELSE IF m \in {4, 6, 9, 11} THEN 30 ELSE 31

Day(y, m, d) == [y |-> y, m |-> m, d |-> d]

before(a, b) ==
    \/ a.y < b.y
    \/ a.y = b.y /\ a.m < b.m
    \/ a.y = b.y /\ a.m = b.m /\ a.d < b.d

RECURSIVE carry(_)
\* MakeDay: months beyond December and days beyond the month carry over
carry(day) ==
    IF day.m > 12 THEN carry(Day(day.y + 1, day.m - 12, day.d))
    ELSE IF day.d > daysInMonth(day.y, day.m)
         THEN carry(Day(day.y, day.m + 1, day.d - daysInMonth(day.y, day.m)))
    ELSE IF day.d < 1
         THEN IF day.m = 1 THEN carry(Day(day.y - 1, 12, day.d + 31))
              ELSE carry(Day(day.y, day.m - 1,
                             day.d + daysInMonth(day.y, day.m - 1)))
    ELSE day

\* the text is YYYY-MM-DD and names a day of the calendar
isCalendarDate(str) ==
    /\ isDate(str)
    /\ numberOf(SubSeq(str, 6, 7)) \in 1..12
    /\ numberOf(SubSeq(str, 9, 10)) \in
           1..daysInMonth(numberOf(SubSeq(str, 1, 4)), numberOf(SubSeq(str, 6, 7)))

\* new Date(str) for a date-only text: midnight UTC of that day
dayOf(str) ==
    Day(numberOf(SubSeq(str, 1, 4)), numberOf(SubSeq(str, 6, 7)),
        numberOf(SubSeq(str, 9, 10)))

\* date.toISOString().split("T")[0]
isoDate(day) ==
    padStart(decimal(day.y), 4) \o <<"-">> \o padStart(decimal(day.m), 2)
    \o <<"-">> \o padStart(decimal(day.d), 2)

\* The time zones the process may run in. For each, the hours local time is
\* ahead of UTC, and per year the local days [from, until) on which the
\* local image of a UTC midnight is in daylight saving time.
TimeZones == {"UTC", "America/New_York", "Europe/Berlin"}

standardOffset(zone) ==
    CASE zone = "UTC" -> 0
      [] zone = "America/New_York" -> -5
      [] zone = "Europe/Berlin" -> 1

daylightSaving(zone, y) ==
    CASE zone = "America/New_York" /\ y = 2023 -> <<Day(2023, 3, 12), Day(2023, 11, 5)>>
      [] zone = "America/New_York" /\ y = 2024 -> <<Day(2024, 3, 10), Day(2024, 11, 3)>>
      [] zone = "Europe/Berlin" /\ y = 2023 -> <<Day(2023, 3, 27), Day(2023, 10, 30)>>
      [] zone = "Europe/Berlin" /\ y = 2024 -> <<Day(2024, 4, 1), Day(2024, 10, 28)>>
      [] OTHER -> <<Day(y, 1, 1), Day(y, 1, 1)>>

\* the offset in force at an evening or night hour of a local day
offsetAt(zone, local) ==
    LET span == daylightSaving(zone, local.y) IN
    IF ~before(local, span[1]) /\ before(local, span[2])
    THEN standardOffset(zone) + 1 ELSE standardOffset(zone)

\* the local day and hour of midnight UTC of a day
localTime(zone, utcDay) ==
    LET sameDay == offsetAt(zone, utcDay)
        dayBefore == carry(Day(utcDay.y, utcDay.m, utcDay.d - 1))
    IN  IF standardOffset(zone) >= 0
        THEN [day |-> utcDay, hour |-> sameDay]
        ELSE [day |-> dayBefore, hour |-> 24 + offsetAt(zone, dayBefore)]

\* the UTC day of a local day and hour
utcDayOf(zone, local) ==
    LET hour == local.hour - offsetAt(zone, local.day) IN
    IF hour < 0 THEN carry(Day(local.day.y, local.day.m, local.day.d - 1))
    ELSE IF hour >= 24 THEN carry(Day(local.day.y, local.day.m, local.day.d + 1))
    ELSE local.day

\* the local day after setDate / setMonth / setFullYear, by recurrence type
advanced(day, recurrence) ==
    LET interval == numberOf(recurrence.interval.s) IN
    CASE recurrence.type = "daily" -> carry(Day(day.y, day.m, day.d + interval))
      [] recurrence.type = "weekly" -> carry(Day(day.y, day.m, day.d + interval * 7))
      [] recurrence.type = "monthly" -> carry(Day(day.y, day.m + interval, day.d))
      [] recurrence.type = "yearly" -> carry(Day(day.y + interval, day.m, day.d))

\* new Date(dueDate), set..., toISOString in the time zone of the process
newDueDate(dueDate, recurrence, zone) ==
    LET local == localTime(zone, dayOf(dueDate)) IN
    isoDate(utcDayOf(zone, [day |-> advanced(local.day, recurrence),
                            hour |-> local.hour]))

RangeError == "RangeError"

Generated(value, error) == [value |-> value, thrown |-> error]

\* Todo.generateRecurringTodo(), id being the identifier the clone draws; a
\* due value that is no date text makes an Invalid Date, on which
\* toISOString throws
generateRecurringTodo(todo, id, zone) ==
    LET dueDate == getDueDate(todo)
        recurrence == getRecurrence(todo)
    IN  IF ~truthy(dueDate) \/ recurrence = NoRecurrence
        THEN Generated(UndefVal, "")
        ELSE IF ~isCalendarDate(valueToString(dueDate))
        THEN Generated(UndefVal, RangeError)
        ELSE Generated(
                setDueDate(setCompletionDate(setCompleted(clone(todo, id), FALSE),
                                             undefined),
                           newDueDate(valueToString(dueDate), recurrence, zone)),
                "")

\* dueDate <= bound
valueNotGreater(v, bound) ==
    IF v.t = "number" THEN FALSE ELSE ~lessThan(bound, valueToString(v))

\* TodoList.getDueInNextNDaysTodos(n), the clock reading midnight UTC of
\* today in the time zone of the process
getDueInNextNDaysTodos(list, n, today, zone) ==
    LET futureDateString ==
            newDueDate(today, [type |-> "daily", interval |-> NumVal(decimal(n))],
                       zone)
    IN  SelectSeq(list, LAMBDA t :
            /\ truthy(getProperty(t.keyValues, DUE))
            /\ valueNotGreater(getProperty(t.keyValues, DUE), futureDateString)
            /\ ~t.completed)

\* the lines documents are made of
DocLines ==
    { <<>>, <<"w">>, <<"k",":","a">>, <<"k",":","a"," ","k",":","a">>,
      <<"x"," ">> \o D1 \o <<" ","w"," ","+","p">> }

Eols == { <<"\n">>, <<"\r","\n">> }

Texts ==
    {join(ls, eol) : ls \in SeqsUpTo(DocLines, MaxLines), eol \in Eols}

\* -------------------------------------------------------------- the state
VARIABLES
    line,       \* the line handed to Scanner.scan
    options,    \* the ParserOptions handed to the Parser
    pc,         \* how far the line, or the Todo, has got: start, scanned,
                \* parsed, rendered; idle, cloned, changed, rendered
    tokens,     \* what scan returned
    result,     \* what parseTodo returned or threw
    rendered,   \* what toString returned
    pos,        \* Parser.pos, where the last parseTodo call stopped
    todo,       \* a Todo object under its own operations
    nops,       \* the number of operations applied to it
    original,   \* the Todo that clone() was called on
    aliased,    \* whether the clone holds the keyValues object of the original
    todos,      \* TodoList.todos
    nextId,     \* the next identifier randomUUID hands out
    thrown,     \* what the last TodoList call threw, if anything
    call,       \* the name of the last call
    ncalls,     \* the number of calls made
    returned,   \* what the last call returned
    invoked,    \* how many times updater functions have been invoked
    past        \* for each call made, its name, its argument and the list
                \* (for a call on a Todo, the Todo) as it was before the call

pipeVars == <<line, options, pc, tokens, result, rendered, pos>>
todoVars == <<todo, nops, original, aliased>>
listVars == <<todos, nextId, thrown, call, ncalls, returned, invoked, past>>
vars == <<pipeVars, todoVars, listVars>>

PipeIdle ==
    /\ line = <<>>
    /\ options = [duplicateKeyBehavior |-> "overwrite",
                  customKeyHandlers |-> <<>>]
    /\ pc = "idle"
    /\ tokens = <<>>
    /\ result = Parsed(undefined)
    /\ rendered = <<>>
    /\ pos = 0

TodoIdle ==
    /\ todo = NewTodo(0, DefaultOptions)
    /\ nops = 0
    /\ original = NewTodo(0, DefaultOptions)
    /\ aliased = FALSE

ListIdle ==
    /\ todos = <<>>
    /\ nextId = 1
    /\ thrown = Parsed(undefined)
    /\ call = "none"
    /\ ncalls = 0
    /\ returned = undefined
    /\ invoked = 0
    /\ past = <<>>

\* ---------------------------------------- one line through the pipeline
Init ==
    /\ line \in Lines
    /\ options = [duplicateKeyBehavior |-> "overwrite",
                  customKeyHandlers |-> <<>>]
    /\ pc = "start"
    /\ tokens = <<>>
    /\ result = Parsed(undefined)
    /\ rendered = <<>>
    /\ pos = 0
    /\ TodoIdle
    /\ ListIdle

\* tokens = scanner.scan(line)
Scan ==
    /\ pc = "start"
    /\ tokens' = scan(line)
    /\ pc' = "scanned"
    /\ UNCHANGED <<pos, line, options, result, rendered, todoVars, listVars>>

\* todo = new Parser(tokens, parserOptions).parseTodo()
Parse ==
    /\ pc = "scanned"
    /\ \E parserOptions \in ParserOptions :
          /\ options' = parserOptions
          /\ \E run \in {parseRun(tokens, parserOptions, 0, 0)} :
                /\ result' = run.out
                /\ pos' = run.pos
    /\ pc' = "parsed"
    /\ UNCHANGED <<line, tokens, rendered, todoVars, listVars>>

\* text = todo.toString()
Render ==
    /\ pc = "parsed"
    /\ result.ok
    /\ rendered' = toString(result.todo)
    /\ pc' = "rendered"
    /\ UNCHANGED <<pos, line, options, tokens, result, todoVars, listVars>>

Next == Scan \/ Parse \/ Render

Spec == Init /\ [][Next]_vars

\* ------------------------------------------ the Scanner on any characters
\* ------------------------------ a line parsed again, rendered and re-read
RepeatVocab ==
    { <<"x">>, <<"(","A",")">>, D1, <<"+","p">>, <<"w">>, <<"k",":">>,
      <<"k",":","a">>, K \o <<":">> \o D1 }

RepeatLines == {join(ps, <<" ">>) : ps \in SeqsUpTo(RepeatVocab, MaxParts)}

RepeatInit ==
    /\ line \in RepeatLines
    /\ options = [duplicateKeyBehavior |-> "overwrite",
                  customKeyHandlers |-> <<>>]
    /\ pc = "start"
    /\ tokens = <<>>
    /\ result = Parsed(undefined)
    /\ rendered = <<>>
    /\ pos = 0
    /\ TodoIdle
    /\ ListIdle

\* parser.parseTodo() once more on the Parser that has parsed
ParseAgain ==
    /\ pc \in {"parsed", "parsed again"}
    /\ ncalls < MaxCalls
    /\ \E run \in {parseTodoAgain(tokens, options, ncalls + 1, pos)} :
          /\ result' = run.out
          /\ pos' = run.pos
    /\ pc' = "parsed again"
    /\ ncalls' = ncalls + 1
    /\ UNCHANGED <<line, options, tokens, rendered, todoVars, todos, nextId,
                   thrown, call, returned, invoked, past>>

\* new Parser(scanner.scan(text), options).parseTodo() on the rendered text
Reparse ==
    /\ pc = "rendered"
    /\ returned' = parseTodo(scan(rendered), options, 1)
    /\ pc' = "reparsed"
    /\ UNCHANGED <<pos, line, options, tokens, result, rendered, todoVars, todos,
                   nextId, thrown, call, ncalls, invoked, past>>

RepeatNext == Scan \/ Parse \/ Render \/ ParseAgain \/ Reparse

RepeatSpec == RepeatInit /\ [][RepeatNext]_vars

\* the characters lines are made of: blanks, a letter, the colon, "x", a digit
LineChars == {" ", "\t", "k", ":", "x", "1"}

CharLines == SeqsUpTo(LineChars, MaxChars)

ScanInit ==
    /\ line \in CharLines
    /\ options = [duplicateKeyBehavior |-> "overwrite",
                  customKeyHandlers |-> <<>>]
    /\ pc = "start"
    /\ tokens = <<>>
    /\ result = Parsed(undefined)
    /\ rendered = <<>>
    /\ pos = 0
    /\ TodoIdle
    /\ ListIdle

ScanSpec == ScanInit /\ [][Scan]_vars

\* ------------------------------------------------ a TodoList under calls
ListInit == PipeIdle /\ TodoIdle /\ ListIdle

\* list.parse(text, parserOptions)
TodoListParse ==
    /\ ncalls < MaxCalls
    /\ \E text \in Texts, parserOptions \in ParserOptions :
          \E out \in {parseText(text, parserOptions, nextId)} :
          /\ todos' = out.todos
          /\ nextId' = out.nextId
          /\ thrown' = out.thrown
    /\ call' = "parse"
    /\ ncalls' = ncalls + 1
    /\ UNCHANGED <<pipeVars, todoVars, returned, invoked, past>>

ListNext == TodoListParse

ListSpec == ListInit /\ [][ListNext]_vars

\* ------------------------------------- a TodoList of Todo objects, one call
P == <<"+","p">>
Q == <<"+","q">>
AtC == <<"@","c">>
AtD == <<"@","d">>
PrioA == <<"(","A",")">>

\* the options of the Todo objects lists are made of
PoolOptions ==
    << [DefaultOptions EXCEPT !.description = <<"w">>],
       [DefaultOptions EXCEPT !.priority = <<"A">>, !.projects = <<P>>,
           !.contexts = <<AtC>>, !.due = D1, !.creationDate = D2],
       [DefaultOptions EXCEPT !.completed = TRUE, !.completionDate = D1,
           !.priority = <<"B">>, !.projects = <<P>>, !.contexts = <<AtC>>,
           !.due = D2],
       [DefaultOptions EXCEPT !.priority = <<"(","A",")">>, !.projects = <<Q>>,
           !.contexts = <<AtC>>, !.creationDate = D1, !.due = D3],
       [DefaultOptions EXCEPT !.completed = TRUE, !.completionDate = D2,
           !.creationDate = D2, !.projects = <<P, Q>>, !.contexts = <<AtD>>] >>

\* the objects: the i-th constructed carries the i-th identifier
TodoPool == [i \in DOMAIN PoolOptions |-> NewTodo(i, PoolOptions[i])]

\* identifiers callers pass: those of the objects, and one no object carries
Ids == 1..(Len(PoolOptions) + 1)

\* the criteria callers hand to filter
Criteria ==
    {[NoCriteria EXCEPT !.completed = c, !.priority = p, !.projects = ps,
                        !.contexts = cs, !.dueAfter = a, !.dueBefore = b] :
        c \in {<<>>, <<TRUE>>, <<FALSE>>},
        p \in {undefined, PrioA},
        ps \in {<<>>, <<<<P>>>>, <<<<Q, P>>>>},
        cs \in {<<>>, <<<<AtC>>>>},
        a \in {undefined, D3, D1},
        b \in {undefined, D2, D3}}
    \cup {[NoCriteria EXCEPT !.completed = <<FALSE>>, !.project = P,
                             !.context = AtC],
          [NoCriteria EXCEPT !.projects = <<<<>>>>, !.contexts = <<<<AtD, AtC>>>>]}

\* new TodoList() and then addTodo(todo) for some objects, some of them twice
CollectionInit ==
    /\ PipeIdle
    /\ TodoIdle
    /\ todos \in SeqsUpTo(Range(TodoPool), MaxTodos)
    /\ nextId = Len(PoolOptions) + 1
    /\ thrown = Parsed(undefined)
    /\ call = "none"
    /\ ncalls = 0
    /\ returned = undefined
    /\ invoked = 0
    /\ past = <<>>

\* one call: its name and argument are noted with the list as it was
Called(name, arg) ==
    /\ call' = name
    /\ ncalls' = ncalls + 1
    /\ past' = Append(past, [call |-> name, arg |-> arg, todos |-> todos])
    /\ UNCHANGED <<pipeVars, todoVars, nextId>>

\* list.deleteTodo(todoId) or list.deleteTodo(todo)
DeleteTodo ==
    /\ call = "none"
    /\ \E todoId \in Ids, byObject \in BOOLEAN :
          /\ todos' = deleteTodo(todos, todoId)
          /\ Called("deleteTodo", [id |-> todoId, byObject |-> byObject])
    /\ thrown' = Parsed(undefined)
    /\ UNCHANGED <<returned, invoked>>

\* list.getTodo(todoId)
GetTodo ==
    /\ call \in {"none", "deleteTodo"}
    /\ \E todoId \in Ids :
          /\ returned' = getTodo(todos, todoId)
          /\ Called("getTodo", [id |-> todoId])
    /\ thrown' = Parsed(undefined)
    /\ UNCHANGED <<todos, invoked>>

\* list.editTodo(todoId, updater)
EditTodo ==
    /\ call = "none"
    /\ \E todoId \in Ids, updater \in Updaters, today \in {D1} :
          \E out \in {editTodo(todos, todoId, updater, today)} :
             /\ todos' = out.todos
             /\ thrown' = out.thrown
             /\ invoked' = invoked + out.invoked
             /\ Called("editTodo", [id |-> todoId, updater |-> updater])
    /\ UNCHANGED returned

\* list.editTodo(updatedTodo), the object being one of the list, one that was
\* never added, or a new one
ReplaceTodo ==
    /\ call = "none"
    /\ \E updatedTodo \in Range(TodoPool)
                          \cup {NewTodo(nextId, PoolOptions[1])} :
          \E out \in {replaceTodo(todos, updatedTodo)} :
             /\ todos' = out.todos
             /\ thrown' = out.thrown
             /\ Called("editTodo", [id |-> updatedTodo.id, updater |-> "none"])
    /\ UNCHANGED <<returned, invoked>>

\* list.sortBy(criteria)
SortBy ==
    /\ call = "none"
    /\ \E criteria \in {"priority", "due", "creation", "completion"} :
          \E out \in {sortBy(todos, criteria)} :
             /\ todos' = out.todos
             /\ thrown' = out.thrown
             /\ Called("sortBy", criteria)
    /\ UNCHANGED <<returned, invoked>>

\* list.filter(criteria)
Filter ==
    /\ call = "none"
    /\ \E criteria \in Criteria :
          /\ returned' = filter(todos, criteria)
          /\ Called("filter", criteria)
    /\ thrown' = Parsed(undefined)
    /\ UNCHANGED <<todos, invoked>>

\* list.getDueInNextNDaysTodos(n)
GetDueInNextNDaysTodos ==
    /\ call = "none"
    /\ \E n \in {0, 7}, today \in {D2, D3, D1}, zone \in TimeZones :
          /\ returned' = getDueInNextNDaysTodos(todos, n, today, zone)
          /\ Called("getDueInNextNDaysTodos", [n |-> n, today |-> today, zone |-> zone])
    /\ thrown' = Parsed(undefined)
    /\ UNCHANGED <<todos, invoked>>

CollectionNext ==
    \/ GetDueInNextNDaysTodos
    \/ DeleteTodo
    \/ GetTodo
    \/ EditTodo
    \/ ReplaceTodo
    \/ SortBy
    \/ Filter

CollectionSpec == CollectionInit /\ [][CollectionNext]_vars

\* ------------------------------------------ a TodoList under several calls
\* lines handed to addTodo, and documents handed to parse
AddLines == { <<"w">>, <<"k",":","a">>, <<"k",":","a"," ","k",":","a">> }

AddTexts == {l \o <<"\n">> \o D1 \o <<" ","w">> : l \in AddLines}

AddOptions ==
    { [duplicateKeyBehavior |-> "overwrite", customKeyHandlers |-> <<>>],
      [duplicateKeyBehavior |-> "error", customKeyHandlers |-> <<>>],
      [duplicateKeyBehavior |-> "merge",
       customKeyHandlers |-> <<KeyHandler(K, "isDate", "none")>>] }

\* the Todo objects callers hold
AddObjects == {TodoPool[1], TodoPool[2]}

CallsInit ==
    /\ PipeIdle
    /\ TodoIdle
    /\ todos = <<>>
    /\ nextId = Len(PoolOptions) + 1
    /\ thrown = Parsed(undefined)
    /\ call = "none"
    /\ ncalls = 0
    /\ returned = undefined
    /\ invoked = 0
    /\ past = <<>>

\* one more call: its name and argument are noted with the list as it was
ListCalled(name, arg) ==
    /\ ncalls < MaxCalls
    /\ call' = name
    /\ ncalls' = ncalls + 1
    /\ past' = Append(past, [call |-> name, arg |-> arg, todos |-> todos])
    /\ UNCHANGED <<pipeVars, todoVars, returned>>

\* list.addTodo(text, parserOptions)
ListAddTodo ==
    \E text \in AddLines, parserOptions \in AddOptions :
       \E out \in {addTodo(todos, text, parserOptions, nextId)} :
          /\ todos' = out.todos
          /\ nextId' = out.nextId
          /\ thrown' = out.thrown
          /\ ListCalled("addTodo", [byText |-> TRUE, text |-> text,
                                    options |-> parserOptions])
          /\ UNCHANGED invoked

\* list.addTodo(todo)
ListAddTodoObject ==
    \E t \in AddObjects :
       /\ todos' = pushTodo(todos, t)
       /\ thrown' = Parsed(undefined)
       /\ ListCalled("addTodo", [byText |-> FALSE, id |-> t.id])
       /\ UNCHANGED <<nextId, invoked>>

\* list.parse(text, parserOptions)
ListParse ==
    \E text \in AddTexts, parserOptions \in AddOptions :
       \E out \in {parseText(text, parserOptions, nextId)} :
          /\ todos' = out.todos
          /\ nextId' = out.nextId
          /\ thrown' = out.thrown
          /\ ListCalled("parse", [byText |-> TRUE, text |-> text,
                                  options |-> parserOptions])
          /\ UNCHANGED invoked

\* list.parse(todos)
ListParseTodos ==
    \E array \in SeqsUpTo(AddObjects, 2) :
       /\ todos' = parseTodos(array)
       /\ thrown' = Parsed(undefined)
       /\ ListCalled("parse", [byText |-> FALSE, ids |-> [i \in DOMAIN array |-> array[i].id]])
       /\ UNCHANGED <<nextId, invoked>>

\* list.editTodo(todoId, updater)
ListEditTodo ==
    \E todoId \in {1, 2, Len(PoolOptions) + 1}, updater \in Updaters :
       \E out \in {editTodo(todos, todoId, updater, D1)} :
          /\ todos' = out.todos
          /\ thrown' = out.thrown
          /\ invoked' = invoked + out.invoked
          /\ ListCalled("editTodo", [id |-> todoId, updater |-> updater])
          /\ UNCHANGED nextId

\* list.editTodo(updatedTodo), the object being one the caller holds, changed
\* or not
ListReplaceTodo ==
    \E t \in AddObjects, changed \in BOOLEAN :
       \E out \in {replaceTodo(todos, IF changed THEN setDescription(t, <<"e">>)
                                                  ELSE t)} :
          /\ todos' = out.todos
          /\ thrown' = out.thrown
          /\ ListCalled("editTodo", [id |-> t.id, updater |-> "none"])
          /\ UNCHANGED <<nextId, invoked>>

\* list.deleteTodo(todoId)
ListDeleteTodo ==
    \E todoId \in {1, 2, Len(PoolOptions) + 1} :
       /\ todos' = deleteTodo(todos, todoId)
       /\ thrown' = Parsed(undefined)
       /\ ListCalled("deleteTodo", [id |-> todoId])
       /\ UNCHANGED <<nextId, invoked>>

CallsNext ==
    \/ ListAddTodo
    \/ ListAddTodoObject
    \/ ListParse
    \/ ListParseTodos
    \/ ListEditTodo
    \/ ListReplaceTodo
    \/ ListDeleteTodo

CallsSpec == CallsInit /\ [][CallsNext]_vars

\* ------------------------------------------- a Todo under its operations
Dates == {D1, D2}

ConstructorOptions ==
    [completed : BOOLEAN,
     priority : {undefined, <<"A">>, <<"(","B",")">>},
     completionDate : {undefined, D1},
     creationDate : {undefined, D2},
     description : {undefined, <<"w">>},
     projects : {<<>>, <<<<"p">>, <<"+","p">>>>},
     contexts : {<<>>, <<<<"@","c">>, <<"c">>>>},
     keyValues : {<<>>},
     due : {undefined, D1}]

\* what callers hand to setPriority
PriorityInputs ==
    { null, <<>>, <<"A">>, <<"z">>, <<"(","B",")">>, <<"(","b",")">>,
      <<"a","b">>, <<"1">>, <<"1","c">>, <<"(",")">> }

\* a Todo as the constructor or the Parser hands it to the caller
TodoInit ==
    /\ PipeIdle
    /\ ListIdle
    /\ nops = 0
    /\ original = NewTodo(0, DefaultOptions)
    /\ aliased = FALSE
    /\ \/ \E o \in ConstructorOptions : todo = NewTodo(1, o)
       \/ \E l \in DocLines, o \in ParserOptions :
             /\ parseTodo(scan(l), o, 1).ok
             /\ todo = parseTodo(scan(l), o, 1).todo

Op(new) ==
    /\ nops < MaxOps
    /\ todo' = new
    /\ nops' = nops + 1
    /\ UNCHANGED <<pipeVars, listVars, original, aliased>>

\* todo.completed = value
SetCompleted == \E value \in BOOLEAN : Op(setCompleted(todo, value))

\* todo.completionDate = value
SetCompletionDate ==
    \E value \in Dates \cup {undefined} : Op(setCompletionDate(todo, value))

\* todo.markCompleted(completionDate), the clock reading today
MarkCompleted ==
    \E completionDate \in {undefined, D1}, today \in Dates :
        Op(markCompleted(todo, completionDate, today))

MarkIncomplete == Op(markIncomplete(todo))

ToggleCompletion == \E today \in Dates : Op(toggleCompletion(todo, today))

SetPriority == \E priority \in PriorityInputs : Op(setPriority(todo, priority))

IncreasePriority == Op(increasePriority(todo))

DecreasePriority == Op(decreasePriority(todo))

\* the object under study becomes todo.clone()
Clone == Op(clone(todo, todo.id + 1))

TodoNext ==
    \/ SetCompleted
    \/ SetCompletionDate
    \/ MarkCompleted
    \/ MarkIncomplete
    \/ ToggleCompletion
    \/ SetPriority
    \/ IncreasePriority
    \/ DecreasePriority
    \/ Clone

TodoSpec == TodoInit /\ [][TodoNext]_vars

\* ------------------------------- a Todo, its tags, its metadata, its clone
V == <<"v">>
W == <<"w">>

\* the key-value objects handed to the constructor
KeyValueObjects ==
    { <<>>,
      <<[key |-> K, value |-> StrVal(<<"a">>)]>>,
      <<[key |-> K, value |-> ArrVal(<<StrVal(<<"a">>), StrVal(<<"b">>)>>)],
        [key |-> DUE, value |-> StrVal(D2)]>> }

TagOptions ==
    [completed : {FALSE},
     priority : {undefined, <<"a","b">>},
     completionDate : {undefined},
     creationDate : {undefined},
     description : {undefined, W},
     projects : {<<>>, <<<<"p">>, P>>, <<Q, P, Q>>},
     contexts : {<<>>, <<AtC, <<"c">>>>},
     keyValues : {kv \in KeyValueObjects : Len(kv) < 2},
     due : {undefined}]

\* lines that repeat a tag
TagLines ==
    { join(<<W, P, P>>, <<" ">>), join(<<AtC, P, AtC, Q>>, <<" ">>) }

TagInit ==
    /\ PipeIdle
    /\ ListIdle
    /\ nops = 0
    /\ original = NewTodo(0, DefaultOptions)
    /\ aliased = FALSE
    /\ \/ \E o \in TagOptions : todo = NewTodo(1, o)
       \/ \E l \in TagLines, o \in ParserOptions :
             todo = parseTodo(scan(l), o, 1).todo

\* one call on the Todo in hand, which is the clone once clone() was called;
\* changed is the original as the call leaves it
Edit(new, changed) ==
    /\ pc \in {"idle", "cloned", "changed"}
    /\ nops < MaxOps
    /\ todo' = new
    /\ original' = changed
    /\ nops' = nops + 1
    /\ pc' = IF pc = "idle" THEN "idle" ELSE "changed"
    /\ UNCHANGED <<pos, line, options, tokens, result, rendered, listVars, aliased>>

\* the original after a write into the keyValues object of the Todo in hand
written(new) ==
    IF aliased THEN [original EXCEPT !.keyValues = new.keyValues] ELSE original

AddProject == \E project \in {<<"p">>, P, Q} : Edit(addProject(todo, project), original)

RemoveProject ==
    \E project \in {<<"p">>, Q} : Edit(removeProject(todo, project), original)

AddContext == \E context \in {<<"c">>, AtD} : Edit(addContext(todo, context), original)

RemoveContext ==
    \E context \in {<<"c">>, AtD} : Edit(removeContext(todo, context), original)

SetDescription == Edit(setDescription(todo, V), original)

SetDueDate == Edit(setDueDate(todo, D1), written(setDueDate(todo, D1)))

SetKeyValue ==
    \E value \in {StrVal(<<"b">>)} :
        Edit(setKeyValue(todo, K, value), written(setKeyValue(todo, K, value)))

\* whether clone() hands the constructor the keyValues object of the
\* original: it hands over { ...this._keyValues }, a fresh object
cloneSharesKeyValues == FALSE

\* the Todo in hand becomes todo.clone()
CloneTodo ==
    /\ pc = "idle"
    /\ nops < MaxOps
    /\ original' = todo
    /\ todo' = clone(todo, todo.id + 1)
    /\ aliased' = cloneSharesKeyValues
    /\ nops' = nops + 1
    /\ pc' = "cloned"
    /\ UNCHANGED <<pos, line, options, tokens, result, rendered, listVars>>

TagNext ==
    \/ AddProject
    \/ RemoveProject
    \/ AddContext
    \/ RemoveContext
    \/ SetDescription
    \/ SetDueDate
    \/ SetKeyValue
    \/ CloneTodo

TagSpec == TagInit /\ [][TagNext]_vars

\* ----------------------------------------------------- a recurring Todo
D4 == <<"2","0","2","3","-","0","4","-","1","0">>

RecValues == { <<"2","w">>, <<"1","d">>, <<"1","m">>, <<"1","y">>, <<"5","x">>,
               <<"1","W">> }

RecurOptions ==
    [completed : BOOLEAN,
     priority : {undefined},
     completionDate : {undefined, D1},
     creationDate : {undefined},
     description : {W},
     projects : {<<>>},
     contexts : {<<>>},
     keyValues : {<<>>} \cup {<<[key |-> REC, value |-> StrVal(v)]>> : v \in RecValues},
     due : {undefined, D2, D3, D4, W}]

\* 10^21, the first integer written with an exponent
Sextillion == <<"1">> \o [i \in 1..21 |-> "0"]

Patterns ==
    [type : {<<"d","a","i","l","y">>, <<"w","e","e","k","l","y">>,
             <<"m","o","n","t","h","l","y">>, <<"y","e","a","r","l","y">>},
     interval : {NumVal(<<"0">>), NumVal(<<"2">>), NumVal(Sextillion)}]

RecurInit ==
    /\ PipeIdle
    /\ ListIdle
    /\ nops = 0
    /\ original = NewTodo(0, DefaultOptions)
    /\ aliased = FALSE
    /\ \E o \in RecurOptions :
          /\ o.completed = (o.completionDate # undefined)
          /\ todo = NewTodo(1, o)

\* one call on the Todo
TodoCalled(name, arg) ==
    /\ ncalls < MaxCalls
    /\ call' = name
    /\ ncalls' = ncalls + 1
    /\ past' = Append(past, [call |-> name, arg |-> arg, todos |-> <<todo>>])
    /\ UNCHANGED <<pipeVars, nops, original, aliased, todos, nextId, thrown,
                   invoked>>

\* todo.setRecurrence(pattern)
SetRecurrence ==
    \E pattern \in Patterns :
        /\ todo' = setRecurrence(todo, pattern)
        /\ TodoCalled("setRecurrence", pattern)
        /\ UNCHANGED returned

\* todo.getRecurrence()
GetRecurrence ==
    /\ returned' = getRecurrence(todo)
    /\ TodoCalled("getRecurrence", <<>>)
    /\ UNCHANGED todo

\* todo.generateRecurringTodo(), the process running in some time zone
GenerateRecurringTodo ==
    \E zone \in TimeZones :
        /\ returned' = generateRecurringTodo(todo, todo.id + 1, zone)
        /\ TodoCalled("generateRecurringTodo", zone)
        /\ UNCHANGED todo

RecurNext ==
    \/ SetRecurrence
    \/ GetRecurrence
    \/ GenerateRecurringTodo

RecurSpec == RecurInit /\ [][RecurNext]_vars

\* ------------------------------------------- a Todo and its priority
PriorityOptions ==
    [completed : BOOLEAN,
     priority : {undefined} \cup {<<UpperLetters[i]>> : i \in DOMAIN UpperLetters},
     completionDate : {undefined},
     creationDate : {undefined},
     description : {W},
     projects : {<<>>},
     contexts : {<<>>},
     keyValues : {<<>>},
     due : {undefined}]

PriorityInit ==
    /\ PipeIdle
    /\ ListIdle
    /\ nops = 0
    /\ original = NewTodo(0, DefaultOptions)
    /\ aliased = FALSE
    /\ \E o \in PriorityOptions : todo = NewTodo(1, o)

\* todo.increasePriority()
RaisePriority ==
    /\ todo' = increasePriority(todo)
    /\ TodoCalled("increasePriority", <<>>)
    /\ UNCHANGED returned

\* todo.decreasePriority()
LowerPriority ==
    /\ todo' = decreasePriority(todo)
    /\ TodoCalled("decreasePriority", <<>>)
    /\ UNCHANGED returned

\* todo.setPriority(priority)
GivePriority ==
    \E priority \in PriorityInputs :
        /\ todo' = setPriority(todo, priority)
        /\ TodoCalled("setPriority", priority)
        /\ UNCHANGED returned

PriorityNext ==
    \/ RaisePriority
    \/ LowerPriority
    \/ GivePriority

PrioritySpec == PriorityInit /\ [][PriorityNext]_vars

\* ------------------------------------------------------ a Todo rendered
RenderOptions ==
    [completed : BOOLEAN,
     priority : {undefined, <<"A">>},
     completionDate : {undefined, D1},
     creationDate : {undefined, D2},
     description : {undefined, W, join(<<W, P, AtC>>, <<" ">>), Q \o AtD},
     projects : {<<>>, <<P>>, <<Q, P>>},
     contexts : {<<>>, <<AtD, AtC>>},
     keyValues : KeyValueObjects,
     due : {undefined, D1}]

RenderInit ==
    /\ PipeIdle
    /\ ListIdle
    /\ nops = 0
    /\ original = NewTodo(0, DefaultOptions)
    /\ aliased = FALSE
    /\ \E o \in RenderOptions : todo = NewTodo(1, o)

\* todo.toString()
TodoToString ==
    /\ pc = "idle"
    /\ rendered' = toString(todo)
    /\ pc' = "rendered"
    /\ UNCHANGED <<pos, line, options, tokens, result, todoVars, listVars>>

RenderSpec == RenderInit /\ [][TodoToString]_vars

\* ----------------------------------------------------------------- claims

\* C1: when TodoList.parse(text) throws on some line, the list holds none of
\* the todos parsed from the earlier lines of that text (every entry left is
\* older than the call).
C1_ParseRetainsNoPartialDocument ==
    [][(call' = "parse" /\ ~thrown'.ok)
          => \A i \in DOMAIN todos' : todos'[i].id < nextId]_vars

\* C2: a Todo that is not completed has no completion date, in every state
\* reachable through the constructor, the setters, markCompleted,
\* markIncomplete, toggleCompletion, clone and the Parser.
C2_IncompleteHasNoCompletionDate ==
    ~todo.completed => todo.completionDate = undefined

\* C3: the stored priority is absent or exactly "(" + one letter A-Z + ")".
C3_PriorityWellFormed ==
    todo.priority = undefined \/ isPriority(todo.priority)

\* --------------------------------------- what the claims say about a line
\* The todo.txt grammar read off a token sequence t (1-based indexes):
\* [x] [(P)] [date] [date, when x] body...
hasX(t) == Len(t) >= 1 /\ t[1].type = "COMPLETION"
prioAt(t) == IF hasX(t) THEN 2 ELSE 1
hasPrio(t) == prioAt(t) <= Len(t) /\ t[prioAt(t)].type = "PRIORITY"
date1At(t) == IF hasPrio(t) THEN prioAt(t) + 1 ELSE prioAt(t)
hasDate1(t) == date1At(t) <= Len(t) /\ t[date1At(t)].type = "DATE"
date2At(t) == IF hasDate1(t) THEN date1At(t) + 1 ELSE date1At(t)
hasDate2(t) == hasX(t) /\ date2At(t) <= Len(t) /\ t[date2At(t)].type = "DATE"
bodyAt(t) == IF hasDate2(t) THEN date2At(t) + 1 ELSE date2At(t)

lineCompletionDate(t) ==
    IF hasX(t) /\ hasDate1(t) THEN t[date1At(t)].value ELSE undefined

lineCreationDate(t) ==
    IF hasX(t) THEN (IF hasDate2(t) THEN t[date2At(t)].value ELSE undefined)
    ELSE IF hasDate1(t) THEN t[date1At(t)].value ELSE undefined

linePriority(t) == IF hasPrio(t) THEN t[prioAt(t)].value ELSE undefined

opt(s) == IF s = undefined THEN <<>> ELSE <<s>>

RECURSIVE roles(_, _)
\* the role of each token of t from index i on: the key or the value of an
\* assignment, or description text
roles(t, i) ==
    IF i > Len(t) THEN <<>>
    ELSE IF t[i].type = "KEY" /\ i < Len(t)
         THEN <<"key", "value">> \o roles(t, i + 2)
         ELSE <<"text">> \o roles(t, i + 1)

\* the role of every token of t; "header" for the leading marker, priority
\* and dates
roleSeq(t) ==
    LET b == bodyAt(t) IN [j \in 1..(b - 1) |-> "header"] \o roles(t, b)

roleOf(t, j) == roleSeq(t)[j]

\* the indexes of the tokens of t that assign key name k, in order
assignmentsOf(t, k) ==
    LET r == roleSeq(t) IN
    SelectSeq([j \in 1..Len(t) |-> j],
              LAMBDA j : r[j] = "key" /\ t[j].value = k \o <<":">>)

keyNames(t) ==
    LET r == roleSeq(t) IN
    {SubSeq(t[j].value, 1, Len(t[j].value) - 1) :
        j \in {i \in 1..Len(t) : r[i] = "key"}}

RECURSIVE spaceJoined(_)
spaceJoined(texts) ==
    IF texts = <<>> THEN <<>>
    ELSE IF Len(texts) = 1 THEN texts[1]
    ELSE texts[1] \o <<" ">> \o spaceJoined(Tail(texts))

\* the texts of the tokens of t with the role "text", in order
descriptionTexts(t) ==
    LET r == roleSeq(t)
        idx == SelectSeq([j \in 1..Len(t) |-> j], LAMBDA j : r[j] = "text")
    IN  [n \in DOMAIN idx |-> t[idx[n]].value]

\* s without the blanks (space, tab, carriage return) at its two ends
RECURSIVE stripped(_)
stripped(s) ==
    IF s = <<>> THEN s
    ELSE IF s[1] \in {" ", "\t", "\r"} THEN stripped(Tail(s))
    ELSE IF s[Len(s)] \in {" ", "\t", "\r"}
         THEN stripped(SubSeq(s, 1, Len(s) - 1))
    ELSE s

isPrefix(p, s) == Len(p) <= Len(s) /\ SubSeq(s, 1, Len(p)) = p

\* text starts with the given words, one space between them, and the last of
\* them ends where text ends or where a space follows
startsWithWords(text, words) ==
    LET p == spaceJoined(words) IN
    /\ isPrefix(p, text)
    /\ (p = <<>> \/ Len(text) = Len(p) \/ text[Len(p) + 1] = " ")

\* the state parseTodo leaves when it returns a Todo
parsedOk == pc = "parsed" /\ result.ok

\* the parts of the line and, for part i (1-based), its tokens
lineParts == splitByWhitespace(line)
firstTokenOf(ps, i) ==
    i + Cardinality({j \in 1..(i - 1) : hasKeyValue(ps[j])})
tokensOf(ps, i) ==
    IF hasKeyValue(ps[i])
    THEN {tokens[firstTokenOf(ps, i)], tokens[firstTokenOf(ps, i) + 1]}
    ELSE {tokens[firstTokenOf(ps, i)]}
priorityAllowed(ps, i) == i = 1 \/ (i = 2 /\ ps[1] = <<"x">>)

\* C4 as stated: the rendered text starts with the line's "x" marker, its
\* completion and creation dates and its "(P)" priority, each verbatim.
C4_RenderKeepsMarkerPriorityDates ==
    pc = "rendered" =>
        startsWithWords(rendered,
            (IF hasX(tokens) THEN <<<<"x">>>> ELSE <<>>)
            \o opt(lineCompletionDate(tokens))
            \o opt(lineCreationDate(tokens))
            \o opt(linePriority(tokens)))

\* C4 amended: the rendered text starts with the line's "x" marker and its
\* completion and creation dates, then its "(P)" priority when the line is
\* not completed.
C4_RenderKeepsMarkerDatesOpenPriority ==
    pc = "rendered" =>
        startsWithWords(rendered,
            (IF hasX(tokens) THEN <<<<"x">>>> ELSE <<>>)
            \o opt(lineCompletionDate(tokens))
            \o opt(lineCreationDate(tokens))
            \o (IF hasX(tokens) THEN <<>> ELSE opt(linePriority(tokens))))

C4_Witness ==
    /\ pc = "rendered"
    /\ ~hasX(tokens) /\ hasPrio(tokens) /\ hasDate1(tokens)
    /\ Len(tokens) > bodyAt(tokens) - 1

count(seq, v) == Cardinality({i \in DOMAIN seq : seq[i] = v})

\* the value the Parser is to store for text assigned to key k
expectedValue(k, text) ==
    LET hs == SelectSeq(options.customKeyHandlers, LAMBDA h : h.key = k)
    IN  IF hs # <<>> THEN transformed(hs[1], text) ELSE StrVal(text)

\* C5: under "merge" a key assigned n >= 2 times on the line is stored as the
\* list of its n (transformed) values in encounter order.
C5_MergeKeepsEveryValue ==
    (parsedOk /\ options.duplicateKeyBehavior = "merge") =>
        \A k \in keyNames(tokens) :
            LET as == assignmentsOf(tokens, k) IN
            Len(as) >= 2 =>
                /\ hasOwnProperty(result.todo.keyValues, k)
                /\ ownValue(result.todo.keyValues, k) =
                       ArrVal([n \in DOMAIN as |->
                                  expectedValue(k, tokens[as[n] + 1].value)])

repeatedKeys(t) == {k \in keyNames(t) : Len(assignmentsOf(t, k)) >= 2}

\* C6: under "error" (no custom handlers) a line that assigns some key a
\* second time raises a duplicate-key error naming such a key and returns no
\* Todo; a line in which no key repeats parses.
C6_ErrorIffKeyRepeats ==
    (pc = "parsed" /\ options.duplicateKeyBehavior = "error"
        /\ options.customKeyHandlers = <<>>) =>
        IF repeatedKeys(tokens) # {}
        THEN /\ ~result.ok
             /\ result.error = "Duplicate key"
             /\ result.key \in repeatedKeys(tokens)
             /\ result.todo = undefined
        ELSE result.ok

\* the leading dates go where the grammar puts them
leadingDatesAssigned ==
    /\ result.todo.completionDate = lineCompletionDate(tokens)
    /\ result.todo.creationDate = lineCreationDate(tokens)

dateTexts == {tokens[j].value : j \in {i \in DOMAIN tokens : tokens[i].type = "DATE"}}

\* the number of DATE tokens outside the leading positions that carry text v
\* and whose role is in R
laterDates(v, R) ==
    LET r == roleSeq(tokens) IN
    Cardinality({j \in DOMAIN tokens :
        tokens[j].type = "DATE" /\ tokens[j].value = v /\ r[j] \in R})

\* C7 as stated: the leading dates are assigned by completion state and
\* every other Date token is left in the description.
C7_LaterDatesAllInDescription ==
    parsedOk =>
        /\ leadingDatesAssigned
        /\ LET words == splitByWhitespace(result.todo.description) IN
           \A v \in dateTexts : count(words, v) = laterDates(v, {"text", "value"})

\* C7 amended: the leading dates are assigned by completion state and every
\* other Date token is left in the description, unless it is the value of
\* the Key token before it.
C7_LaterDatesInDescriptionUnlessValue ==
    parsedOk =>
        /\ leadingDatesAssigned
        /\ LET words == splitByWhitespace(result.todo.description) IN
           \A v \in dateTexts : count(words, v) = laterDates(v, {"text"})

C7_Witness ==
    /\ parsedOk
    /\ hasX(tokens) /\ hasDate1(tokens) /\ hasDate2(tokens)
    /\ result.todo.completionDate = D1 /\ result.todo.creationDate = D2

ownKeys(keyValues) == {keyValues[i].key : i \in DOMAIN keyValues}

DefaultParserOptions ==
    [duplicateKeyBehavior |-> "overwrite", customKeyHandlers |-> <<>>]

\* what C8 says of the metadata: every assigned key is stored, and under the
\* default options with the text of its (last) value token
keysStored ==
    /\ ownKeys(result.todo.keyValues) = keyNames(tokens)
    /\ options = DefaultParserOptions =>
          \A k \in keyNames(tokens) :
              LET as == assignmentsOf(tokens, k) IN
              ownValue(result.todo.keyValues, k)
                  = StrVal(tokens[as[Len(as)] + 1].value)

\* C8 as stated: a Key followed by a token stores that token's text under
\* the key, and the description is exactly the space-joined texts of all
\* other tokens of the description region.
C8_DescriptionIsJoinedTexts ==
    parsedOk =>
        /\ keysStored
        /\ result.todo.description = spaceJoined(descriptionTexts(tokens))

\* C8 amended: ... and the description is the space-joined texts of all other
\* tokens of the description region, trimmed of surrounding whitespace.
C8_DescriptionIsTrimmedJoinedTexts ==
    parsedOk =>
        /\ keysStored
        /\ result.todo.description
               = stripped(spaceJoined(descriptionTexts(tokens)))

C8_Witness ==
    /\ parsedOk
    /\ \E j \in DOMAIN tokens : roleOf(tokens, j) = "key"
    /\ tokens[Len(tokens)].type = "KEY"
    /\ roleOf(tokens, Len(tokens)) = "text"
    /\ Len(descriptionTexts(tokens)) >= 2

\* the state scan leaves
scanned == pc = "scanned"

\* C9: a Priority token comes only from the first part of the line, or from
\* the second part when the first is "x"; a priority-shaped part anywhere
\* else is a Word.
C9_PriorityOnlyInFront ==
    scanned =>
        LET ps == lineParts IN
        \A i \in DOMAIN ps :
            /\ (\E tk \in tokensOf(ps, i) : tk.type = "PRIORITY")
                  => priorityAllowed(ps, i)
            /\ isPriority(ps[i]) =>
                  tokensOf(ps, i) =
                      {Token(IF priorityAllowed(ps, i)
                             THEN "PRIORITY" ELSE "WORD", ps[i])}

C9_Witness ==
    /\ scanned
    /\ \E i, j \in DOMAIN lineParts :
          /\ isPriority(lineParts[i]) /\ ~priorityAllowed(lineParts, i)
          /\ tokensOf(lineParts, i) = {Token("WORD", lineParts[i])}
          /\ j = 2 /\ tokensOf(lineParts, j) = {Token("PRIORITY", lineParts[j])}

\* C10: a Completion token comes only from the first part of the line; "x"
\* at a later position is a Word; a line has at most one Completion token.
C10_CompletionOnlyFirst ==
    scanned =>
        /\ LET ps == lineParts IN
           \A i \in DOMAIN ps :
              /\ (\E tk \in tokensOf(ps, i) : tk.type = "COMPLETION")
                    => i = 1
              /\ (i > 1 /\ ps[i] = <<"x">>) =>
                    tokensOf(ps, i) = {Token("WORD", <<"x">>)}
        /\ Cardinality({j \in DOMAIN tokens :
                            tokens[j].type = "COMPLETION"}) <= 1

C10_Witness ==
    /\ scanned
    /\ Len(lineParts) >= 2
    /\ lineParts[1] = <<"x">> /\ lineParts[2] = <<"x">>
    /\ tokens[1].type = "COMPLETION" /\ tokens[2].type = "WORD"

\* ---------------------------------------------------------------- C11
blank(c) == c \in {" ", "\t"}

RECURSIVE words(_)
\* the maximal runs of characters of s that hold no space and no tab
words(s) ==
    IF s = <<>> THEN <<>>
    ELSE IF blank(s[1]) THEN words(Tail(s))
    ELSE LET ends == {n \in 1..Len(s) :
                         /\ \A j \in 1..n : ~blank(s[j])
                         /\ (n = Len(s) \/ blank(s[n + 1]))}
             n == CHOOSE n \in ends : TRUE
         IN  <<SubSeq(s, 1, n)>> \o words(SubSeq(s, n + 1, Len(s)))

\* the positions c at which word w splits as key:value: letters only before
\* the colon at c, at least one of them, and at least one character after it
splitPoints(w) ==
    {c \in 2..(Len(w) - 1) :
        w[c] = ":"
        /\ \A j \in 1..(c - 1) : w[j] \in Range(LowerLetters \o UpperLetters)}

RECURSIVE expectedTokens(_)
\* what each token is to carry, word by word: its text, and whether it is to
\* be a Key
expectedTokens(ws) ==
    IF ws = <<>> THEN <<>>
    ELSE (IF splitPoints(ws[1]) = {}
          THEN <<[text |-> ws[1], key |-> FALSE]>>
          ELSE LET c == CHOOSE c \in splitPoints(ws[1]) : TRUE IN
               <<[text |-> SubSeq(ws[1], 1, c), key |-> TRUE],
                 [text |-> SubSeq(ws[1], c + 1, Len(ws[1])), key |-> FALSE]>>)
         \o expectedTokens(Tail(ws))

\* C11: scan returns for every line; a line of blanks only (or of nothing)
\* gives no token; every blank-separated part gives one token carrying it,
\* or, when it splits as key:value, a Key token and then its value token, so
\* there are as many tokens as parts plus key:value parts.
C11_ScanTotal ==
    pc = "scanned" =>
        LET ws == words(line)
            e == expectedTokens(ws)
        IN  /\ ((\A i \in DOMAIN line : blank(line[i])) => tokens = <<>>)
            /\ Len(tokens) =
                   Len(ws) + Cardinality({i \in DOMAIN ws : splitPoints(ws[i]) # {}})
            /\ Len(tokens) = Len(e)
            /\ \A i \in DOMAIN e :
                   /\ tokens[i].value = e[i].text
                   /\ tokens[i].type \in TokenType
                   /\ e[i].key => tokens[i].type = "KEY"

C11_Witness ==
    /\ pc = "scanned"
    /\ Len(words(line)) = 2
    /\ \E i, j \in DOMAIN words(line) :
          splitPoints(words(line)[i]) # {} /\ splitPoints(words(line)[j]) = {}
    /\ Len(tokens) = 3

\* ------------------------------------------------------------ C12 .. C14
\* the last call: its name, its argument, the list before it
lastCall == past[Len(past)]

without(list, i) == SubSeq(list, 1, i - 1) \o SubSeq(list, i + 1, Len(list))

holds(list, id) == \E i \in DOMAIN list : list[i].id = id

\* C12: deleteTodo removes the first entry that carries the id, and only it,
\* when there is one, and leaves the list as it was when there is none.
C12_DeleteRemovesFirstMatch ==
    call = "deleteTodo" =>
        LET b == lastCall.todos
            id == lastCall.arg.id
        IN  IF holds(b, id)
            THEN /\ Len(todos) = Len(b) - 1
                 /\ \E i \in DOMAIN b :
                       /\ b[i].id = id
                       /\ \A j \in 1..(i - 1) : b[j].id # id
                       /\ todos = without(b, i)
            ELSE todos = b

\* C13: getTodo with the id a deleteTodo call was just given finds nothing.
C13_DeletedIsNotFound ==
    (call = "getTodo" /\ Len(past) >= 2
        /\ past[Len(past) - 1].call = "deleteTodo"
        /\ past[Len(past) - 1].arg.id = lastCall.arg.id) =>
        returned = UndefVal

C13_Witness ==
    /\ call = "getTodo" /\ Len(past) = 2
    /\ past[1].call = "deleteTodo" /\ past[1].arg.id = past[2].arg.id
    /\ Cardinality({i \in DOMAIN past[1].todos :
                        past[1].todos[i].id = past[1].arg.id}) = 2
    /\ Len(todos) = 1
    /\ returned = UndefVal

\* C14: editTodo with an id no entry carries throws the not-found error,
\* invokes no updater and leaves the list as it was.
C14_EditAbsentThrows ==
    (call = "editTodo" /\ ~holds(lastCall.todos, lastCall.arg.id)) =>
        /\ ~thrown.ok /\ thrown.error = "not found"
        /\ invoked = 0
        /\ todos = lastCall.todos

C14_Witness ==
    /\ call = "editTodo" /\ lastCall.arg.updater \in Updaters
    /\ ~holds(lastCall.todos, lastCall.arg.id)
    /\ Len(todos) >= 2
    /\ ~thrown.ok

\* ------------------------------------------------------------ C15 .. C17
hasDue(t) == \E i \in DOMAIN t.keyValues : t.keyValues[i].key = DUE

dueOf(t) ==
    t.keyValues[CHOOSE i \in DOMAIN t.keyValues : t.keyValues[i].key = DUE].value.s

\* a <= b on two strings
atMost(a, b) == a = b \/ lessThan(a, b)

\* the due date of t lies within the bounds given, an omitted bound being
\* open; without a due date t is within them only when none is given
withinDue(t, c) ==
    IF c.dueAfter = undefined /\ c.dueBefore = undefined THEN TRUE
    ELSE /\ hasDue(t)
         /\ c.dueAfter # undefined => atMost(c.dueAfter, dueOf(t))
         /\ c.dueBefore # undefined => atMost(dueOf(t), c.dueBefore)

\* t meets the completed, priority, projects and contexts criteria given
meetsListed(t, c) ==
    /\ c.completed # <<>> => t.completed = c.completed[1]
    /\ c.priority # undefined => t.priority = c.priority
    /\ (c.projects # <<>> /\ c.projects[1] # <<>>) =>
           \E tag \in Range(c.projects[1]) : tag \in Range(t.projects)
    /\ (c.contexts # <<>> /\ c.contexts[1] # <<>>) =>
           \E tag \in Range(c.contexts[1]) : tag \in Range(t.contexts)

\* t has the one project and the one context given under the keys project
\* and context
meetsSingle(t, c) ==
    /\ c.project # undefined => c.project \in Range(t.projects)
    /\ c.context # undefined => c.context \in Range(t.contexts)

C16_DueBoundsInclusive ==
    call = "filter" =>
        LET c == lastCall.arg IN
        /\ \A i \in DOMAIN returned :
              (c.dueAfter # undefined \/ c.dueBefore # undefined) =>
                  /\ hasDue(returned[i])
                  /\ c.dueAfter # undefined => atMost(c.dueAfter, dueOf(returned[i]))
                  /\ c.dueBefore # undefined => atMost(dueOf(returned[i]), c.dueBefore)
        /\ \A i \in DOMAIN todos :
              (meetsListed(todos[i], c) /\ withinDue(todos[i], c)) =>
                  todos[i] \in Range(returned)
        /\ \A i \in DOMAIN todos :
              (~hasDue(todos[i]) /\ (c.dueAfter # undefined \/ c.dueBefore # undefined))
                  => todos[i] \notin Range(returned)

C16_Witness ==
    /\ call = "filter"
    /\ lastCall.arg.dueAfter = D3 /\ lastCall.arg.dueBefore = D3
    /\ lastCall.arg.completed = <<>> /\ lastCall.arg.priority = undefined
    /\ lastCall.arg.projects = <<>> /\ lastCall.arg.contexts = <<>>
    /\ Len(todos) = 3 /\ Len(returned) = 1
    /\ \E i \in DOMAIN todos : ~hasDue(todos[i])
    /\ \E i \in DOMAIN todos : hasDue(todos[i]) /\ dueOf(todos[i]) = D1

\* the text sortBy orders t by: the field, or "" when it is missing
orderText(t, criterion) ==
    CASE criterion = "priority" -> IF t.priority = undefined THEN <<>> ELSE t.priority
      [] criterion = "due" -> IF hasDue(t) THEN dueOf(t) ELSE <<>>
      [] criterion = "creation" ->
            IF t.creationDate = undefined THEN <<>> ELSE t.creationDate
      [] criterion = "completion" ->
            IF t.completionDate = undefined THEN <<>> ELSE t.completionDate

occurrences(list, t) == Cardinality({i \in DOMAIN list : list[i] = t})

\* C17: sortBy leaves a permutation of the list, ascending by the text of
\* the chosen field, a missing field counting as "" and so coming first, and
\* todos with equal texts in the order they had.
C17_SortStableAscending ==
    (call = "sortBy" /\ thrown.ok) =>
        LET b == lastCall.todos
            k == lastCall.arg
        IN  /\ Len(todos) = Len(b)
            /\ \A i \in DOMAIN b : occurrences(todos, b[i]) = occurrences(b, b[i])
            /\ \A i, j \in DOMAIN todos :
                  i < j => atMost(orderText(todos[i], k), orderText(todos[j], k))
            /\ \A i \in DOMAIN b :
                  SelectSeq(todos, LAMBDA t : orderText(t, k) = orderText(b[i], k))
                      = SelectSeq(b, LAMBDA t : orderText(t, k) = orderText(b[i], k))

C17_Witness ==
    /\ call = "sortBy" /\ thrown.ok /\ lastCall.arg = "priority"
    /\ Len(todos) = 3 /\ todos # lastCall.todos
    /\ todos[1].priority = undefined
    /\ todos[2].priority = PrioA /\ todos[3].priority = PrioA
    /\ todos[2] # todos[3]

\* ------------------------------------------------------------ C18 .. C20
noDuplicates(list) ==
    \A i, j \in DOMAIN list : list[i] = list[j] => i = j

\* C18: the projects and the contexts of a Todo built by the constructor or
\* the Parser and changed by addProject, addContext, removeProject,
\* removeContext and clone hold no entry twice.
C18_TagsAreDistinct ==
    /\ noDuplicates(todo.projects) /\ noDuplicates(todo.contexts)
    /\ noDuplicates(original.projects) /\ noDuplicates(original.contexts)

C18_Witness ==
    /\ pc = "changed"
    /\ original.projects = <<Q, P>>
    /\ todo.projects = <<P, Q>>
    /\ todo.contexts = <<AtC>>

\* the text of a stored value: a string as it is, an array joined by commas
shown(v) ==
    IF v.t = "array" THEN join([i \in DOMAIN v.a |-> v.a[i].s], <<",">>) ELSE v.s

\* the parts the claim lists, in its order
claimedParts(t) ==
    LET marker == IF ~t.completed THEN <<>>
                  ELSE IF t.completionDate = undefined THEN <<<<"x">>>>
                  ELSE <<<<"x">>, t.completionDate>>
        creation == IF t.creationDate = undefined THEN <<>> ELSE <<t.creationDate>>
        prio == IF t.completed \/ t.priority = undefined THEN <<>> ELSE <<t.priority>>
        absent(tag) == \A i \in 1..Len(t.description) :
                          \A j \in i..Len(t.description) :
                              SubSeq(t.description, i, j) # tag
        meta == [i \in DOMAIN t.keyValues |->
                    t.keyValues[i].key \o <<":">> \o shown(t.keyValues[i].value)]
    IN  marker \o creation \o prio \o <<t.description>>
        \o SelectSeq(t.projects, absent) \o SelectSeq(t.contexts, absent) \o meta

\* C19: toString gives the parts of the claim, in its order, joined by single
\* spaces; a project or context found in the description is no part.
C19_ToStringOrder ==
    pc = "rendered" => rendered = spaceJoined(claimedParts(todo))

C19_Witness ==
    /\ pc = "rendered"
    /\ rendered = join(<<<<"x">>, D1, D2, join(<<W, P, AtC>>, <<" ">>), Q, AtD,
                         <<"k",":","a",",","b">>, DUE \o <<":">> \o D1>>, <<" ">>)

\* what clone() is to copy
copied(t) == [t EXCEPT !.id = 0]

\* C20: clone() returns a Todo with another id and with the completed flag,
\* priority, dates, description, projects, contexts and metadata of the
\* original, and no later call on the clone changes the original.
C20_CloneEqualAndIndependent ==
    [][ /\ (pc' = "cloned") => (/\ todo'.id # original'.id
                                /\ copied(todo') = copied(original'))
        /\ (pc \in {"cloned", "changed"}) => (original' = original) ]_vars

\* ------------------------------------------------------------ C21 .. C30
\* the text stored under "rec", or <<>> when there is none or it is no text
recOf(t) ==
    LET at == {i \in DOMAIN t.keyValues : t.keyValues[i].key = REC} IN
    IF at = {} THEN <<>>
    ELSE LET v == t.keyValues[CHOOSE i \in at : TRUE].value IN
         IF v.t = "string" THEN v.s ELSE <<>>

\* the days a text of digits and d or w stands for; 0 for any other text
daysOfRec(r) ==
    IF Len(r) < 2 \/ ~allDigits(SubSeq(r, 1, Len(r) - 1)) THEN 0
    ELSE IF r[Len(r)] \in {"d", "D"} THEN numberOf(SubSeq(r, 1, Len(r) - 1))
    ELSE IF r[Len(r)] \in {"w", "W"} THEN 7 * numberOf(SubSeq(r, 1, Len(r) - 1))
    ELSE 0

validRec(r) ==
    /\ Len(r) >= 2 /\ allDigits(SubSeq(r, 1, Len(r) - 1))
    /\ r[Len(r)] \in {"d", "w", "m", "y", "D", "W", "M", "Y"}

RECURSIVE daysUntil(_, _)
\* the days from 1 January 2023 to the first day of month m of year y
daysUntil(y, m) ==
    IF y = 2023 /\ m = 1 THEN 0
    ELSE IF m = 1 THEN daysUntil(y - 1, 12) + 31
    ELSE daysUntil(y, m - 1) + daysInMonth(y, m - 1)

\* the number of the day in the run of days from 1 January 2023
ordinal(day) == daysUntil(day.y, day.m) + day.d

\* C21: generateRecurringTodo on a Todo with a due date and a valid
\* recurrence returns a Todo that is not completed, has no completion date
\* and is due interval days (daily) or 7 * interval days (weekly) after the
\* original; without a due date or a valid recurrence it returns nothing.
C21_RecurringDueAdvanced ==
    call = "generateRecurringTodo" =>
        IF hasDue(todo) /\ isCalendarDate(dueOf(todo)) /\ validRec(recOf(todo))
        THEN /\ returned.thrown = ""
             /\ returned.value # UndefVal
             /\ ~returned.value.completed
             /\ returned.value.completionDate = undefined
             /\ daysOfRec(recOf(todo)) > 0 =>
                    /\ isCalendarDate(dueOf(returned.value))
                    /\ ordinal(dayOf(dueOf(returned.value)))
                           = ordinal(dayOf(dueOf(todo))) + daysOfRec(recOf(todo))
        ELSE (~hasDue(todo) \/ ~validRec(recOf(todo))) =>
                 (returned.thrown = "" /\ returned.value = UndefVal)

\* the last two calls were the two named, in this order
lastTwo(first, second) ==
    /\ Len(past) >= 2
    /\ past[Len(past) - 1].call = first
    /\ past[Len(past)].call = second

\* the Todo before the last two calls, and between them
beforeLastTwo == past[Len(past) - 1].todos[1]
betweenLastTwo == past[Len(past)].todos[1]

\* "(" and one upper-case letter and ")"
wellFormedPriority(p) ==
    Len(p) = 3 /\ p[1] = "(" /\ p[3] = ")" /\ p[2] \in Range(UpperLetters)

\* C22: increasePriority and then decreasePriority lead back to the starting
\* priority from (B)..(Z) and from no priority, and from (A) to (B).
C22_RaiseThenLowerReturns ==
    lastTwo("increasePriority", "decreasePriority") =>
        LET start == beforeLastTwo.priority IN
        /\ (start = undefined \/ (wellFormedPriority(start) /\ start[2] # "A"))
              => todo.priority = start
        /\ start = <<"(","A",")">> => todo.priority = <<"(","B",")">>

C22_Witness ==
    /\ lastTwo("increasePriority", "decreasePriority")
    /\ Len(past) = 2
    /\ beforeLastTwo.priority = undefined
    /\ betweenLastTwo.priority = <<"(","Z",")">>
    /\ todo.priority = undefined

\* C23: setPriority called twice in a row with one input leaves the priority
\* the first call left.
C23_SetPriorityIdempotent ==
    (lastTwo("setPriority", "setPriority")
        /\ past[Len(past) - 1].arg = past[Len(past)].arg) =>
        todo.priority = betweenLastTwo.priority

C23_Witness ==
    /\ lastTwo("setPriority", "setPriority")
    /\ Len(past) = 2
    /\ past[1].arg = <<"z">> /\ past[2].arg = <<"z">>
    /\ beforeLastTwo.priority = <<"(","C",")">>
    /\ betweenLastTwo.priority = <<"(","Z",")">>
    /\ todo.priority = <<"(","Z",")">>

\* C24: getDueInNextNDaysTodos(n) returns exactly the incomplete todos due
\* from today to n days from today; a todo due before today is not returned.
C24_DueInNextNDays ==
    call = "getDueInNextNDaysTodos" =>
        LET today == ordinal(dayOf(lastCall.arg.today))
            within(t) == /\ ~t.completed
                         /\ hasDue(t)
                         /\ ordinal(dayOf(dueOf(t))) >= today
                         /\ ordinal(dayOf(dueOf(t))) <= today + lastCall.arg.n
        IN  returned = SelectSeq(todos, within)

\* two outcomes of parseTodo are the same error, or Todos equal but for the id
sameOutcome(a, b) ==
    IF a.ok /\ b.ok THEN copied(a.todo) = copied(b.todo)
    ELSE ~a.ok /\ ~b.ok /\ a.error = b.error /\ a.key = b.key

\* C25: a parseTodo call on a Parser that has parsed before gives the
\* outcome of the call before it, wherever that call stopped.
C25_ParseTodoRepeatable ==
    [][(pc' = "parsed again") => sameOutcome(result, result')]_vars

C25_Witness ==
    /\ pc = "parsed again"
    /\ ~result.ok /\ result.error = "Duplicate key"
    /\ pos < Len(tokens)
    /\ pos > 2

\* C26: the Todo parsed from a line under the default options, rendered and
\* parsed again under them, has the same completed flag, priority, dates,
\* description, projects, contexts and metadata.
C26_RenderReparseStable ==
    (pc = "reparsed" /\ options = DefaultParserOptions) =>
        sameOutcome(result, returned)

named(type) ==
    CASE type[1] = "d" -> "daily"
      [] type[1] = "w" -> "weekly"
      [] type[1] = "m" -> "monthly"
      [] type[1] = "y" -> "yearly"

\* C30: getRecurrence after setRecurrence({type, interval}) returns that type
\* and interval, and returns nothing for a stored rec value that is not
\* digits followed by one of d, w, m, y in either case.
C30_RecurrenceRoundTrip ==
    /\ lastTwo("setRecurrence", "getRecurrence") =>
          returned = [interval |-> past[Len(past) - 1].arg.interval,
                      type |-> named(past[Len(past) - 1].arg.type)]
    /\ (call = "getRecurrence" /\ ~validRec(recOf(todo))) =>
          returned = NoRecurrence

\* C27: no two entries of a TodoList carry the same id, whatever parse,
\* addTodo, editTodo and deleteTodo calls were made.
C27_IdsAreDistinct ==
    \A i, j \in DOMAIN todos : todos[i].id = todos[j].id => i = j

\* C28: addTodo with a text that fails to parse leaves the list as it was;
\* when it succeeds the list is the list before with one entry appended.
C28_AddTodoAllOrNothing ==
    (call = "addTodo" /\ lastCall.arg.byText) =>
        IF thrown.ok
        THEN /\ Len(todos) = Len(lastCall.todos) + 1
             /\ SubSeq(todos, 1, Len(lastCall.todos)) = lastCall.todos
        ELSE todos = lastCall.todos

C28_Witness ==
    /\ call = "addTodo" /\ lastCall.arg.byText
    /\ ~thrown.ok /\ thrown.error = "Validation failed"
    /\ Len(todos) = 1
    /\ todos = lastCall.todos

====
